---- MODULE Spec2Model ----
(***************************************************************************)
(* TERVYX Amazon Claims: the normalisation stage (scripts/                 *)
(* 4_normalize_to_csv.py) with its gate-hint classifier, the validator     *)
(* (scripts/5_qc_validate.py), the weight estimator (scripts/              *)
(* 6_sampling_weights.py) and the extraction engine (scripts/              *)
(* 3_extract_claims.py), as state machines.                                *)
(*                                                                         *)
(* Text is a sequence of one-character strings.  Table cells are text as   *)
(* the CSV holds them; numbers and lists are converted to and from cells   *)
(* the way str(), int(), float() and json.dumps() do it.                   *)
(***************************************************************************)
EXTENDS Integers, Sequences, FiniteSets, TLC

VARIABLES
    hints,        \* policy hints: [phi, k, l] as loaded from the YAML file
    url_meta,     \* product-URL table: sequence of rows [asin, cohort, ...]
    policy,       \* extraction policy: [temperature]
    ext_pc,       \* extraction stage: "start", "raised" or "written"
    raw,          \* claims_raw.jsonl: sequence of extraction records
    run,          \* which run of the Normalizer this is (1 or 2)
    pc,           \* Normalizer position: "pass", "done", "crashed", "idle"
    line,         \* number of lines of raw read in this run
    ci,           \* number of claims of the current entry processed
    products,     \* dict asin -> ProductRecord, in insertion order
    claims,       \* list of ClaimRecord
    product_out,  \* product CSV file: [exists, header, rows]
    claims_out,   \* claims CSV file:  [exists, header, rows]
    first_out,    \* the two files as the first run left them
    cls,          \* one classification: text and the classifier's results
    ord,          \* claim numbering: [n, first, last]
    v_claims,     \* the claims table the validator reads
    v_pc,         \* validator position
    v_i,          \* rows read by the running check
    v_errors,     \* violations recorded by the running check
    v_passed,     \* result of the temperature check (or "none")
    vm,           \* validator main: tables, schemas, all_pass, exit code
    co,           \* one cell on its way through validate_csv's coercion
    we,           \* weight estimator: plan, product table, weights
    ex,           \* extraction engine: one asset, backend, result
    sc            \* scraper: policy, URL rows, attempts, waits, pages

vars == <<hints, url_meta, policy, ext_pc, raw, run, pc, line, ci, products,
          claims, product_out, claims_out, first_out, cls, ord,
          v_claims, v_pc, v_i, v_errors, v_passed, vm, co, we, ex, sc>>

auxVars == <<vm, co, we, ex, sc>>

normVars == <<hints, url_meta, policy, ext_pc, raw, run, pc, line, ci,
              products, claims, product_out, claims_out, first_out>>
valVars == <<v_claims, v_pc, v_i, v_errors, v_passed>>

(***************************************************************************)
(* Bounds of the model.                                                    *)
(***************************************************************************)
MaxRecords == 2
MaxClaims == 2
MaxTextLen == 3
MaxRows == 3
OrdinalCap == 10001

(***************************************************************************)
(* Characters and text.                                                    *)
(***************************************************************************)
LOWER ==
    <<"a", "b", "c", "d", "e", "f", "g", "h", "i", "j", "k", "l", "m",
      "n", "o", "p", "q", "r", "s", "t", "u", "v", "w", "x", "y", "z">>

UPPER ==
    <<"A", "B", "C", "D", "E", "F", "G", "H", "I", "J", "K", "L", "M",
      "N", "O", "P", "Q", "R", "S", "T", "U", "V", "W", "X", "Y", "Z">>

DIGITS == <<"0", "1", "2", "3", "4", "5", "6", "7", "8", "9">>

PUNCT == <<" ", "%", ".", ",", "-", "_", "!", "?">>

Alphabet == LOWER \o UPPER \o DIGITS \o PUNCT

\* str.lower() on one character
LowerTable ==
    [c \in {Alphabet[i] : i \in 1..Len(Alphabet)} |->
        IF \E i \in 1..Len(UPPER) : UPPER[i] = c
        THEN LOWER[CHOOSE i \in 1..Len(UPPER) : UPPER[i] = c]
        ELSE c]

LowerChar(c) == LowerTable[c]

\* str.lower()
LowerStr(s) == [i \in 1..Len(s) |-> LowerChar(s[i])]

\* Python's `needle in hay` on strings
Contains(hay, needle) ==
    \E i \in 0..(Len(hay) - Len(needle)) :
        SubSeq(hay, i + 1, i + Len(needle)) = needle

\* code point of a character (its place in the alphabet)
CodeTable ==
    [c \in {Alphabet[i] : i \in 1..Len(Alphabet)} |->
        CHOOSE i \in 1..Len(Alphabet) : Alphabet[i] = c]

Code(c) == CodeTable[c]

\* str.encode(): the text as a sequence of byte values
Encode(s) == [i \in 1..Len(s) |-> Code(s[i])]

HashModulus == 65521
HashBase == 131

RECURSIVE Digest(_, _)
Digest(bytes, h) ==
    IF bytes = <<>> THEN h
    ELSE Digest(Tail(bytes), (h * HashBase + Head(bytes)) % HashModulus)

\* hashlib.sha256(bytes).hexdigest(): a digest of the bytes, never empty
Sha256Hex(bytes) == <<"sha256", Len(bytes), Digest(bytes, 7)>>

(***************************************************************************)
(* Numbers as cells.                                                       *)
(***************************************************************************)
RECURSIVE NatDigits(_)
NatDigits(n) ==
    IF n < 10 THEN <<DIGITS[n + 1]>>
    ELSE NatDigits(n \div 10) \o <<DIGITS[(n % 10) + 1]>>

\* str(n) for an int
StrInt(n) == IF n < 0 THEN <<"-">> \o NatDigits(0 - n) ELSE NatDigits(n)

IsDigit(c) == \E i \in 1..Len(DIGITS) : DIGITS[i] = c

DigitValue(c) == (CHOOSE i \in 1..Len(DIGITS) : DIGITS[i] = c) - 1

RECURSIVE DigitsValue(_, _)
DigitsValue(s, acc) ==
    IF s = <<>> THEN acc
    ELSE DigitsValue(Tail(s), acc * 10 + DigitValue(Head(s)))

AllDigits(s) == s # <<>> /\ \A i \in 1..Len(s) : IsDigit(s[i])

\* int(cell): [ok, v]; ok = FALSE stands for ValueError
PyInt(s) ==
    LET body == IF s # <<>> /\ Head(s) = "-" THEN Tail(s) ELSE s
    IN  IF AllDigits(body)
        THEN [ok |-> TRUE,
              v |-> IF body = s THEN DigitsValue(body, 0)
                    ELSE 0 - DigitsValue(body, 0)]
        ELSE [ok |-> FALSE, v |-> 0]

\* format(n, "04d"): zero-padded to a minimum width of four
PadWidth == 4

RECURSIVE ZeroPad(_, _)
ZeroPad(d, width) == IF Len(d) >= width THEN d ELSE ZeroPad(<<"0">> \o d, width)

Format04d(n) == ZeroPad(NatDigits(n), PadWidth)

(***************************************************************************)
(* JSON numbers: [t, milli], t in {"int", "float", "null"}, value in       *)
(* thousandths.                                                            *)
(***************************************************************************)
JInt(n) == [t |-> "int", milli |-> n * 1000]
JFloat(m) == [t |-> "float", milli |-> m]
JNull == [t |-> "null", milli |-> 0]

RECURSIVE StripZeros(_)
StripZeros(d) ==
    IF Len(d) > 1 /\ d[Len(d)] = "0" THEN StripZeros(SubSeq(d, 1, Len(d) - 1))
    ELSE d

\* str(x) for a JSON value read by json.loads
PyStr(x) ==
    IF x.t = "null" THEN <<"N", "o", "n", "e">>
    ELSE IF x.t = "int" THEN StrInt(x.milli \div 1000)
    ELSE LET m == IF x.milli < 0 THEN 0 - x.milli ELSE x.milli
             sign == IF x.milli < 0 THEN <<"-">> ELSE <<>>
         IN  sign \o NatDigits(m \div 1000) \o <<".">>
                  \o StripZeros(ZeroPad(NatDigits(m % 1000), 3))

\* x != 0 in Python (None != 0 is true)
PyNotZero(x) == x.t = "null" \/ x.milli # 0

\* float(cell): [ok, milli]; ok = FALSE stands for ValueError
PyFloat(s) ==
    LET body == IF s # <<>> /\ Head(s) \in {"-", "+"} THEN Tail(s) ELSE s
        neg == s # <<>> /\ Head(s) = "-"
        dots == {i \in 1..Len(body) : body[i] = "."}
        dot == IF dots = {} THEN Len(body) + 1 ELSE CHOOSE i \in dots : TRUE
        ip == SubSeq(body, 1, dot - 1)
        fp == SubSeq(body, dot + 1, Len(body))
        fp3 == SubSeq(fp \o <<"0", "0", "0">>, 1, 3)
        wellformed ==
            /\ Cardinality(dots) <= 1
            /\ ip \o fp # <<>>
            /\ \A i \in 1..Len(ip) : IsDigit(ip[i])
            /\ \A i \in 1..Len(fp) : IsDigit(fp[i])
            /\ Len(fp) <= 3
        mag == DigitsValue(ip, 0) * 1000 + DigitsValue(fp3, 0)
    IN  IF wellformed
        THEN [ok |-> TRUE, milli |-> IF neg THEN 0 - mag ELSE mag]
        ELSE [ok |-> FALSE, milli |-> 0]

(***************************************************************************)
(* json.dumps of a list of strings, as text.                               *)
(***************************************************************************)
RECURSIVE JsonItems(_)
JsonItems(ids) ==
    IF ids = <<>> THEN <<>>
    ELSE IF Len(ids) = 1 THEN <<"\"">> \o Head(ids) \o <<"\"">>
    ELSE <<"\"">> \o Head(ids) \o <<"\"", ",", " ">> \o JsonItems(Tail(ids))

JsonDumps(ids) == <<"[">> \o JsonItems(ids) \o <<"]">>

(***************************************************************************)
(* Gate-hint classifier (4_normalize_to_csv.py).                           *)
(* hints = [phi, k : sequence of [id, patterns], l : sequence of           *)
(* [token, weight]]; the sequences keep the order of the YAML mappings,    *)
(* whose keys are distinct.                                                *)
(***************************************************************************)
Lit(chars) == [kind |-> "literal", lit |-> chars]

\* re.search(pattern, text, flags=re.IGNORECASE) is not None
ReSearch(pattern, text) == Contains(LowerStr(text), LowerStr(pattern.lit))

PatternHit(conf, text) ==
    \E j \in 1..Len(conf.patterns) : ReSearch(conf.patterns[j], text)

RECURSIVE MatchIds(_, _)
MatchIds(confs, text) ==
    IF confs = <<>> THEN <<>>
    ELSE (IF PatternHit(Head(confs), text) THEN <<Head(confs).id>> ELSE <<>>)
         \o MatchIds(Tail(confs), text)

RECURSIVE JoinSpace(_)
JoinSpace(strs) ==
    IF strs = <<>> THEN <<>>
    ELSE IF Len(strs) = 1 THEN Head(strs)
    ELSE Head(strs) \o <<" ">> \o JoinSpace(Tail(strs))

map_phi_hints(text, h) == MatchIds(h.phi, text)

map_k_hints(text, ingredients, h) ==
    MatchIds(h.k, text \o <<" ">> \o JoinSpace(ingredients))

\* a pattern text that re cannot compile, such as "("
Uncompilable(chars) == [kind |-> "bad", lit |-> chars]

\* re.search compiles the pattern when it is called: the inner loop raises
\* re.error at the first uncompilable pattern it reaches, which is one with
\* no matching pattern before it in the same hint (a match ends the loop)
PatternRaises(conf, text) ==
    \E j \in 1..Len(conf.patterns) :
        /\ conf.patterns[j].kind = "bad"
        /\ \A i \in 1..(j - 1) : ~ReSearch(conf.patterns[i], text)

MapRaises(confs, text) ==
    \E i \in 1..Len(confs) : PatternRaises(confs[i], text)

\* "Map hints": one of the two pattern maps raises on this claim text
ClassifierRaises(text, ingredients, h) ==
    \/ MapRaises(h.phi, text)
    \/ MapRaises(h.k, text \o <<" ">> \o JoinSpace(ingredients))

RECURSIVE LLoop(_, _, _, _)
LLoop(weights, text_lower, tokens, score) ==
    IF weights = <<>> THEN [tokens |-> tokens, score |-> score]
    ELSE LET w == Head(weights)
         IN  IF Contains(text_lower, LowerStr(w.token))
             THEN LLoop(Tail(weights), text_lower,
                        Append(tokens, w.token), score + w.weight)
             ELSE LLoop(Tail(weights), text_lower, tokens, score)

\* the same loop over the text as written, without text.lower()
map_l_tokens_cased(text, h) == LLoop(h.l, text, <<>>, 0)

map_l_tokens(text, h) == LLoop(h.l, LowerStr(text), <<>>, 0)

HardThreshold == 3

\* the resolver with the L score tested before the K and Phi matches
compute_gate_hint_l_first(phi_ids, k_ids, l_score) ==
    IF l_score >= HardThreshold THEN "l_hard"
    ELSE IF k_ids # <<>> THEN "k_candidate"
    ELSE IF phi_ids # <<>> THEN "phi_candidate"
    ELSE IF l_score > 0 THEN "l_soft"
    ELSE "none"

compute_gate_hint(phi_ids, k_ids, l_score) ==
    IF k_ids # <<>> THEN "k_candidate"
    ELSE IF phi_ids # <<>> THEN "phi_candidate"
    ELSE IF l_score >= HardThreshold THEN "l_hard"
    ELSE IF l_score > 0 THEN "l_soft"
    ELSE "none"

(***************************************************************************)
(* Words, texts and hint configurations the model draws its inputs from.   *)
(***************************************************************************)
WDetox == <<"d", "e", "t", "o", "x">>
WCure == <<"c", "u", "r", "e">>
WFda == <<"f", "d", "a">>
WNice == <<"n", "i", "c", "e">>
WProven == <<"p", "r", "o", "v", "e", "n">>
WClinically == <<"c", "l", "i", "n", "i", "c", "a", "l", "l", "y">>
WMay == <<"m", "a", "y">>

TxtNice == <<"n", "i", "c", "e">>
TxtProvenMay == <<"P", "R", "O", "V", "E", "N", " ", "m", "a", "y">>
TxtCures ==
    <<"C", "u", "r", "e", "s", " ", "c", "l", "i", "n", "i", "c", "a", "l",
      "l", "y", " ", "p", "r", "o", "v", "e", "n">>
TxtDetoxMay == <<"d", "e", "t", "o", "x", " ", "m", "a", "y">>
TxtSleep ==
    <<"C", "l", "i", "n", "i", "c", "a", "l", "l", "y", " ", "p", "r", "o",
      "v", "e", "n", " ", "t", "o", " ", "i", "m", "p", "r", "o", "v", "e",
      " ", "s", "l", "e", "e", "p", " ", "q", "u", "a", "l", "i", "t", "y",
      " ", "b", "y", " ", "8", "7", "%">>

Texts == {TxtProvenMay, TxtCures, TxtDetoxMay}

IdPhiA == <<"p", "h", "i", "_", "a">>
IdPhiB == <<"p", "h", "i", "_", "b">>
IdKCure == <<"k", "_", "c", "u", "r", "e">>
IdKTox == <<"k", "_", "t", "o", "x">>

SleepWeights ==
    <<[token |-> WProven, weight |-> 2], [token |-> WClinically, weight |-> 2]>>

HintsA ==
    [phi |-> <<[id |-> IdPhiA, patterns |-> <<Lit(WDetox)>>]>>,
     k |-> <<[id |-> IdKCure, patterns |-> <<Lit(WFda), Lit(WCure)>>],
             [id |-> IdKTox, patterns |-> <<Lit(WDetox)>>]>>,
     l |-> SleepWeights]

HintsB ==
    [phi |-> <<[id |-> IdPhiA, patterns |-> <<Lit(WDetox), Lit(WNice)>>],
               [id |-> IdPhiB, patterns |-> <<Lit(WNice)>>]>>,
     k |-> <<>>,
     l |-> <<[token |-> WMay, weight |-> -1],
             [token |-> WClinically, weight |-> 3],
             [token |-> WProven, weight |-> 1]>>]

HintConfigs == {HintsA, HintsB}

WParen == <<"(">>

\* HintsA with one uncompilable pattern: first in the Phi hint, after the
\* Phi hint's pattern, first in the first K hint, last in the last K hint
BadPhiFirst ==
    [HintsA EXCEPT !.phi[1].patterns = <<Uncompilable(WParen)>> \o @]

BadPhiLast ==
    [HintsA EXCEPT !.phi[1].patterns = @ \o <<Uncompilable(WParen)>>]

BadKFirst ==
    [HintsA EXCEPT !.k[1].patterns = <<Uncompilable(WParen)>> \o @]

BadKLast ==
    [HintsA EXCEPT !.k[2].patterns = @ \o <<Uncompilable(WParen)>>]

BadHintConfigs == {BadPhiFirst, BadPhiLast, BadKFirst, BadKLast}

\* hint configurations with neither Phi nor K patterns, for the L detector
LOnly(weights) == [phi |-> <<>>, k |-> <<>>, l |-> weights]

SmallChars == {"a", "A", "b", " "}

SmallTexts == UNION {[1..n -> SmallChars] : n \in 0..MaxTextLen}

ClassifyTexts == SmallTexts \cup Texts \cup {TxtNice, TxtSleep}

ClassifyHints ==
    HintConfigs \cup
    {LOnly(SleepWeights),
     LOnly(<<[token |-> <<"a">>, weight |-> 1],
             [token |-> <<"a", "b">>, weight |-> 2]>>),
     LOnly(<<[token |-> <<"A">>, weight |-> 2],
             [token |-> <<"a">>, weight |-> 3],
             [token |-> <<"b", " ">>, weight |-> -1]>>)}

(***************************************************************************)
(* Inputs of the Normalizer.                                               *)
(***************************************************************************)
Asins == {"B0A", "B0B"}

\* pages_sha256.csv has one row, and so one page hash, per asin
PageShaOf(asin) == IF asin = "B0A" THEN "sha_p1" ELSE "sha_p2"

\* temperatures an extraction policy file may set
PolicyTemps == {JInt(0), JFloat(0), JFloat(700)}

\* the temperature in a stream that the extraction stage did not write
ExternalTemp == JFloat(700)

\* rows of the product-URL table, as csv.DictReader yields them
MetaFull ==
    [a \in Asins |->
        IF a = "B0A"
        THEN [asin |-> a, cohort |-> "R", method |-> "random",
              category_hint |-> "sleep"]
        ELSE [asin |-> a, cohort |-> "T", method |-> "keyword",
              category_hint |-> "detox"]]

\* a table without cohort and method columns, and without a row for B0B
MetaSparse == [a \in {"B0A"} |-> [asin |-> a, category_hint |-> "sleep"]]

UrlMetas == {MetaFull, MetaSparse}

NoRow == [x \in {} |-> ""]

\* url_meta.get(asin, {})
UrlMetaGet(um, asin) == IF asin \in DOMAIN um THEN um[asin] ELSE NoRow

\* meta.get(key, default)
MetaGet(meta, key, default) ==
    IF key \in DOMAIN meta THEN meta[key] ELSE default

\* entry = json.loads(line)
Entry(asin, sha, temp, cl) ==
    [asin |-> asin, page_sha256 |-> sha,
     extraction |-> [model |-> "gemini", version |-> "v2025-11-12",
                     temperature |-> temp],
     claims |-> cl]

(***************************************************************************)
(* Normalizer (4_normalize_to_csv.py, main).                               *)
(***************************************************************************)
\* products is a dict in insertion order: a sequence of [key, val]
DictHas(d, k) == \E i \in 1..Len(d) : d[i].key = k

DictGet(d, k) == d[CHOOSE i \in 1..Len(d) : d[i].key = k].val

DictValues(d) == [i \in 1..Len(d) |-> d[i].val]

CapturedAtOfRun == IF run = 1 THEN "2025-11-12T00:00:00Z" ELSE "2025-11-12T00:00:01Z"

CapturedAt == "2025-11-12T00:00:00Z"

\* only the first line of the stream creates a product
NeedsInitFirstLineOnly(d, asin) == d = <<>>

\* `asin not in products`
NeedsInit(d, asin) == ~DictHas(d, asin)

NewProduct(asin, meta, entry) ==
    [asin |-> asin,
     platform |-> "amazon",
     category_path |-> MetaGet(meta, "category_hint", ""),
     captured_at |-> CapturedAt,
     sampling_cohort |-> MetaGet(meta, "cohort", "R"),
     selection_method |-> MetaGet(meta, "method", "random"),
     sampling_weight |->
        IF MetaGet(meta, "cohort", "None") = "R" THEN "1.0" ELSE "",
     sampling_frame_version |-> "v2025-11-12",
     product_sha256 |-> entry.page_sha256,
     phi_any_candidate |-> "false",
     k_any_candidate |-> "false",
     l_max_token_score |-> <<"0">>]

ProductColumns ==
    <<"asin", "platform", "category_path", "captured_at", "sampling_cohort",
      "selection_method", "sampling_weight", "sampling_frame_version",
      "product_sha256", "phi_any_candidate", "k_any_candidate",
      "l_max_token_score">>

\* the score of the latest claim replaces the stored one
PyMaxLatest(a, b) == b

\* max(int(...), l_score)
PyMax(a, b) == IF a >= b THEN a ELSE b

\* the flags follow the latest claim instead of accumulating
FoldProductLastWins(p, phi_ids, k_ids, l_score) ==
    [p EXCEPT
        !.phi_any_candidate = IF phi_ids # <<>> THEN "true" ELSE "false",
        !.k_any_candidate = IF k_ids # <<>> THEN "true" ELSE "false",
        !.l_max_token_score = StrInt(PyMax(PyInt(@).v, l_score))]

\* "Update product aggregates"
FoldProduct(p, phi_ids, k_ids, l_score) ==
    [p EXCEPT
        !.phi_any_candidate = IF phi_ids # <<>> THEN "true" ELSE @,
        !.k_any_candidate = IF k_ids # <<>> THEN "true" ELSE @,
        !.l_max_token_score = StrInt(PyMax(PyInt(@).v, l_score))]

\* f"{asin}_c{n:04d}"
ClaimId(asin, n) == <<asin, "_", "c">> \o Format04d(n)

\* the hash of the lower-cased text
ClaimShaOfLowered(claim_text) == Sha256Hex(Encode(LowerStr(claim_text)))

\* hashlib.sha256(claim_text.encode()).hexdigest()
ClaimSha(claim_text) == Sha256Hex(Encode(claim_text))

\* a constant cell instead of the record's temperature
TemperatureCellZero(entry) == <<"0">>

\* str(entry["extraction"]["temperature"])
TemperatureCell(entry) == PyStr(entry.extraction.temperature)

NewClaim(asin, entry, claim_data, n, h) ==
    LET claim_text == claim_data.text
        phi_ids == map_phi_hints(claim_text, h)
        k_ids == map_k_hints(claim_text, <<>>, h)
        l == map_l_tokens(claim_text, h)
    IN  [asin |-> asin,
         claim_id |-> ClaimId(asin, n),
         claim_text_verbatim |-> claim_text,
         claim_type |-> "efficacy",
         has_citation |-> "false",
         source |-> "html",
         extraction_model |-> entry.extraction.model,
         extraction_version |-> entry.extraction.version,
         extraction_temperature |-> TemperatureCell(entry),
         claim_sha256 |-> ClaimSha(claim_text),
         page_sha256 |-> entry.page_sha256,
         claim_scope |-> "wellness",
         phi_hint_ids |-> JsonDumps(phi_ids),
         k_hint_ids |-> JsonDumps(k_ids),
         l_tokens |-> JsonDumps(l.tokens),
         l_token_score |-> StrInt(l.score),
         gate_hint |-> compute_gate_hint(phi_ids, k_ids, l.score)]

ClaimColumns ==
    <<"asin", "claim_id", "claim_text_verbatim", "claim_type", "has_citation",
      "source", "extraction_model", "extraction_version",
      "extraction_temperature", "claim_sha256", "page_sha256", "claim_scope",
      "phi_hint_ids", "k_hint_ids", "l_tokens", "l_token_score", "gate_hint">>

NoFile == [exists |-> FALSE, header |-> <<>>, rows |-> <<>>]

\* 3_extract_claims.py, main: the policy's temperature is checked before
\* anything is extracted; every record written carries that temperature
ExtractMain ==
    /\ ext_pc = "start"
    /\ ext_pc' = IF PyNotZero(policy.temperature) THEN "raised" ELSE "written"
    /\ UNCHANGED <<hints, url_meta, policy, raw, run, pc, line, ci, products,
                   claims, product_out, claims_out, first_out>>

EntryDone == IF line = 0 THEN TRUE ELSE ci = Len(raw[line].claims)

\* the lines the file can hold after the ones read so far: in the first run
\* the file's content is decided as it is read, a second run reads the same
\* file again.  A stream that the extraction stage did not write has one
\* temperature on all its records, and a new page hash from its second
\* record on
NextEntries ==
    IF line < Len(raw) THEN {raw[line + 1]}
    ELSE IF run = 1 /\ Len(raw) < MaxRecords
    THEN {Entry(a,
                IF ext_pc = "written" THEN PageShaOf(a)
                ELSE IF raw = <<>> THEN "sha_p1" ELSE "sha_p2",
                IF ext_pc = "written" THEN policy.temperature
                ELSE ExternalTemp,
                <<>>) : a \in Asins}
    ELSE {}

NextClaims ==
    IF line = 0 THEN {}
    ELSE IF ci < Len(raw[line].claims) THEN {raw[line].claims[ci + 1]}
    ELSE IF run = 1 /\ line = Len(raw) /\ Len(claims) < MaxClaims
    THEN {[text |-> t] : t \in Texts}
    ELSE {}

\* one iteration of `for line_num, line in enumerate(f, 1)` up to the
\* claims loop
ReadLine ==
    /\ pc = "pass"
    /\ ext_pc # "start"
    /\ EntryDone
    /\ \E entry \in NextEntries :
        LET asin == entry.asin
            meta == UrlMetaGet(url_meta, asin)
        IN  /\ raw' = IF line < Len(raw) THEN raw ELSE Append(raw, entry)
            /\ line' = line + 1
            /\ ci' = 0
            /\ products' =
                IF NeedsInit(products, asin)
                THEN Append(products,
                            [key |-> asin,
                             val |-> NewProduct(asin, meta, entry)])
                ELSE products
    /\ UNCHANGED <<hints, url_meta, policy, ext_pc, run, pc, claims,
                   product_out, claims_out, first_out>>

\* one iteration of `for claim_data in entry["claims"]`
ProcessClaim ==
    /\ pc = "pass"
    /\ \E claim_data \in NextClaims :
        LET entry == raw[line]
            asin == entry.asin
            claim_text == claim_data.text
            phi_ids == map_phi_hints(claim_text, hints)
            k_ids == map_k_hints(claim_text, <<>>, hints)
            l == map_l_tokens(claim_text, hints)
        IN  /\ ~ClassifierRaises(claim_text, <<>>, hints)
            /\ raw' = IF ci < Len(entry.claims) THEN raw
                      ELSE [raw EXCEPT ![line].claims = Append(@, claim_data)]
            /\ products' =
                [i \in 1..Len(products) |->
                    IF products[i].key = asin
                    THEN [products[i] EXCEPT
                            !.val = FoldProduct(@, phi_ids, k_ids, l.score)]
                    ELSE products[i]]
            /\ claims' = Append(claims,
                                NewClaim(asin, entry, claim_data,
                                         Len(claims), hints))
            /\ ci' = ci + 1
    /\ UNCHANGED <<hints, url_meta, policy, ext_pc, run, pc, line,
                   product_out, claims_out, first_out>>

\* an iteration of the claims loop in which re.search raises re.error:
\* nothing catches it, the run ends with a traceback and writes no table
ClaimRaises ==
    /\ pc = "pass"
    /\ \E claim_data \in NextClaims :
        LET entry == raw[line]
        IN  /\ ClassifierRaises(claim_data.text, <<>>, hints)
            /\ raw' = IF ci < Len(entry.claims) THEN raw
                      ELSE [raw EXCEPT ![line].claims = Append(@, claim_data)]
    /\ pc' = "crashed"
    /\ UNCHANGED <<hints, url_meta, policy, ext_pc, run, line, ci, products,
                   claims, product_out, claims_out, first_out>>

\* "Write product CSV", "Write claims CSV": each file is opened for
\* writing, then its header is taken from the first row
WriteTables ==
    /\ pc = "pass"
    /\ ext_pc # "start"
    /\ line = Len(raw)
    /\ EntryDone
    /\ IF products = <<>>
       THEN /\ product_out' = [exists |-> TRUE, header |-> <<>>, rows |-> <<>>]
            /\ claims_out' = claims_out
            /\ pc' = "crashed"
       ELSE IF claims = <<>>
       THEN /\ product_out' = [exists |-> TRUE, header |-> ProductColumns,
                               rows |-> DictValues(products)]
            /\ claims_out' = [exists |-> TRUE, header |-> <<>>, rows |-> <<>>]
            /\ pc' = "crashed"
       ELSE /\ product_out' = [exists |-> TRUE, header |-> ProductColumns,
                               rows |-> DictValues(products)]
            /\ claims_out' = [exists |-> TRUE, header |-> ClaimColumns,
                              rows |-> claims]
            /\ pc' = "done"
    /\ UNCHANGED <<hints, url_meta, policy, ext_pc, raw, run, line, ci,
                   products, claims, first_out>>

\* the Normalizer is started again on the same files
Rerun ==
    /\ pc \in {"done", "crashed"}
    /\ run = 1
    /\ run' = 2
    /\ first_out' = [product |-> product_out, claims |-> claims_out]
    /\ pc' = "pass"
    /\ line' = 0
    /\ ci' = 0
    /\ products' = <<>>
    /\ claims' = <<>>
    /\ UNCHANGED <<hints, url_meta, policy, ext_pc, raw, product_out,
                   claims_out>>

(***************************************************************************)
(* Initial states.                                                         *)
(***************************************************************************)
VmIdle == [active |-> FALSE]

CoIdle == [done |-> FALSE]

WeIdle == [pc |-> "idle"]

ExIdle == [pc |-> "idle"]

ScIdle == [pc |-> "idle"]

AuxIdle ==
    /\ vm = VmIdle
    /\ co = CoIdle
    /\ we = WeIdle
    /\ ex = ExIdle
    /\ sc = ScIdle

ClsIdle ==
    [text |-> <<>>, done |-> FALSE, phi_ids |-> <<>>, k_ids |-> <<>>,
     l_tokens |-> <<>>, l_score |-> 0, gate_hint |-> ""]

OrdIdle == [n |-> 0, first |-> <<>>, last |-> <<>>]

ValIdle ==
    /\ v_claims = <<>>
    /\ v_pc = "idle"
    /\ v_i = 0
    /\ v_errors = <<>>
    /\ v_passed = "none"

NormStart ==
    /\ url_meta \in UrlMetas
    /\ policy \in {[temperature |-> t] : t \in PolicyTemps}
    /\ ext_pc = "start"
    /\ raw = <<>>
    /\ run = 1
    /\ pc = "pass"
    /\ line = 0
    /\ ci = 0
    /\ products = <<>>
    /\ claims = <<>>
    /\ product_out = NoFile
    /\ claims_out = NoFile
    /\ first_out = [product |-> NoFile, claims |-> NoFile]

NormIdle ==
    /\ url_meta = MetaFull
    /\ policy = [temperature |-> JInt(0)]
    /\ ext_pc = "start"
    /\ raw = <<>>
    /\ run = 1
    /\ pc = "idle"
    /\ line = 0
    /\ ci = 0
    /\ products = <<>>
    /\ claims = <<>>
    /\ product_out = NoFile
    /\ claims_out = NoFile
    /\ first_out = [product |-> NoFile, claims |-> NoFile]

Init ==
    /\ hints \in HintConfigs
    /\ NormStart
    /\ cls = ClsIdle
    /\ ord = OrdIdle
    /\ ValIdle
    /\ AuxIdle

NormNext ==
    \/ ExtractMain
    \/ ReadLine
    \/ ProcessClaim
    \/ WriteTables

Next == NormNext /\ UNCHANGED <<cls, ord>> /\ UNCHANGED valVars
        /\ UNCHANGED auxVars

Spec == Init /\ [][Next]_vars

RerunNext ==
    /\ NormNext \/ Rerun
    /\ UNCHANGED <<cls, ord>>
    /\ UNCHANGED valVars
    /\ UNCHANGED auxVars

SpecRerun == Init /\ [][RerunNext]_vars

\* the orders a sequence can be put in
PermSeqs(q) ==
    {[i \in 1..Len(q) |-> q[f[i]]] :
        f \in {g \in [1..Len(q) -> 1..Len(q)] :
                    \A i, j \in 1..Len(q) : g[i] = g[j] => i = j}}

\* the same records in another order, the claims inside each record in
\* another order
Reorderings(stream) ==
    UNION {{r \in [1..Len(rp) -> UNION {{[rp[i] EXCEPT !.claims = c] :
                                            c \in PermSeqs(rp[i].claims)} :
                                         i \in 1..Len(rp)}] :
                \A i \in 1..Len(rp) :
                    /\ r[i].asin = rp[i].asin
                    /\ r[i].claims \in PermSeqs(rp[i].claims)} :
           rp \in PermSeqs(stream)}

\* the Normalizer is started again on a stream that holds the same records
\* and claims in another order
RerunReordered ==
    /\ pc = "done"
    /\ run = 1
    /\ run' = 2
    /\ raw' \in Reorderings(raw)
    /\ first_out' = [product |-> product_out, claims |-> claims_out]
    /\ pc' = "pass"
    /\ line' = 0
    /\ ci' = 0
    /\ products' = <<>>
    /\ claims' = <<>>
    /\ UNCHANGED <<hints, url_meta, policy, ext_pc, product_out, claims_out>>

InitReorder ==
    /\ hints \in HintConfigs
    /\ NormStart
    /\ url_meta = MetaFull
    /\ policy.temperature = JInt(0)
    /\ cls = ClsIdle
    /\ ord = OrdIdle
    /\ ValIdle
    /\ AuxIdle

NextReorder ==
    /\ NormNext \/ RerunReordered
    /\ UNCHANGED <<cls, ord>>
    /\ UNCHANGED valVars
    /\ UNCHANGED auxVars

SpecReorder == InitReorder /\ [][NextReorder]_vars

\* the Normalizer started with a hint file that holds an uncompilable
\* pattern: load_policy_hints parses the YAML and compiles nothing
InitBadHints ==
    /\ hints \in BadHintConfigs
    /\ NormStart
    /\ cls = ClsIdle
    /\ ord = OrdIdle
    /\ ValIdle
    /\ AuxIdle

NextBadHints ==
    /\ NormNext \/ ClaimRaises
    /\ UNCHANGED <<cls, ord>>
    /\ UNCHANGED valVars
    /\ UNCHANGED auxVars

SpecBadHints == InitBadHints /\ [][NextBadHints]_vars

(***************************************************************************)
(* The classifier on one text (4_normalize_to_csv.py, "Map hints").        *)
(***************************************************************************)
Classify ==
    /\ cls.done = FALSE
    /\ LET phi_ids == map_phi_hints(cls.text, hints)
           k_ids == map_k_hints(cls.text, <<>>, hints)
           l == map_l_tokens(cls.text, hints)
       IN  cls' = [text |-> cls.text, done |-> TRUE, phi_ids |-> phi_ids,
                   k_ids |-> k_ids, l_tokens |-> l.tokens,
                   l_score |-> l.score,
                   gate_hint |-> compute_gate_hint(phi_ids, k_ids, l.score)]
    /\ UNCHANGED <<hints, ord>>
    /\ UNCHANGED <<url_meta, policy, ext_pc, raw, run, pc, line, ci, products,
                   claims, product_out, claims_out, first_out>>
    /\ UNCHANGED valVars
    /\ UNCHANGED auxVars

InitClassify ==
    /\ hints \in ClassifyHints
    /\ cls \in {[ClsIdle EXCEPT !.text = t] : t \in ClassifyTexts}
    /\ NormIdle
    /\ ord = OrdIdle
    /\ ValIdle
    /\ AuxIdle

SpecClassify == InitClassify /\ [][Classify]_vars

(***************************************************************************)
(* Claim numbering over a long run: of the claims list only its length,    *)
(* its first and its latest claim_id are kept.                             *)
(***************************************************************************)
EmitClaimId ==
    /\ ord.n < OrdinalCap
    /\ \E asin \in Asins :
        LET claim_id == ClaimId(asin, ord.n)
        IN  ord' = [n |-> ord.n + 1,
                    first |-> IF ord.n = 0 THEN claim_id ELSE ord.first,
                    last |-> claim_id]
    /\ UNCHANGED <<hints, cls>>
    /\ UNCHANGED <<url_meta, policy, ext_pc, raw, run, pc, line, ci, products,
                   claims, product_out, claims_out, first_out>>
    /\ UNCHANGED valVars
    /\ UNCHANGED auxVars

InitClaimId ==
    /\ hints = HintsA
    /\ cls = ClsIdle
    /\ NormIdle
    /\ ord = OrdIdle
    /\ ValIdle
    /\ AuxIdle

SpecClaimId == InitClaimId /\ [][EmitClaimId]_vars

(***************************************************************************)
(* Validator (5_qc_validate.py): the temperature check.                    *)
(* A row is a function from column names to cells.                         *)
(***************************************************************************)
TempCells ==
    {<<"0">>, <<"0", ".", "0">>, <<"0", ".", "7">>, <<>>,
     <<"N", "o", "n", "e">>}

RowsWithTemperature == {[extraction_temperature |-> c] : c \in TempCells}

\* claims tables with the temperature column, and tables without it
ClaimsTables ==
    UNION {[1..n -> RowsWithTemperature] \cup [1..n -> {NoRow}] :
            n \in 0..MaxRows}

\* float(row.get("extraction_temperature", 0))
RowTemperature(row) ==
    IF "extraction_temperature" \in DOMAIN row
    THEN PyFloat(row["extraction_temperature"])
    ELSE [ok |-> TRUE, milli |-> 0]

\* one iteration of `for i, row in enumerate(reader, 1)`
CheckTemperatureRow ==
    /\ v_pc = "temperature"
    /\ v_i < Len(v_claims)
    /\ LET i == v_i + 1
           temp == RowTemperature(v_claims[i])
       IN  IF ~temp.ok
           THEN /\ v_pc' = "raised"
                /\ UNCHANGED <<v_i, v_errors>>
           ELSE /\ v_pc' = v_pc
                /\ v_i' = i
                /\ v_errors' =
                    IF temp.milli # 0
                    THEN Append(v_errors, [row |-> i, milli |-> temp.milli])
                    ELSE v_errors
    /\ UNCHANGED <<v_claims, v_passed>>
    /\ UNCHANGED <<hints, cls, ord>>
    /\ UNCHANGED <<url_meta, policy, ext_pc, raw, run, pc, line, ci, products,
                   claims, product_out, claims_out, first_out>>
    /\ UNCHANGED auxVars

\* `return (len(errors) == 0), errors`
CheckTemperatureReturn ==
    /\ v_pc = "temperature"
    /\ v_i = Len(v_claims)
    /\ v_passed' = (Len(v_errors) = 0)
    /\ v_pc' = "temperature_done"
    /\ UNCHANGED <<v_claims, v_i, v_errors>>
    /\ UNCHANGED <<hints, cls, ord>>
    /\ UNCHANGED <<url_meta, policy, ext_pc, raw, run, pc, line, ci, products,
                   claims, product_out, claims_out, first_out>>
    /\ UNCHANGED auxVars

InitValidator ==
    /\ hints = HintsA
    /\ cls = ClsIdle
    /\ NormIdle
    /\ ord = OrdIdle
    /\ v_claims \in ClaimsTables
    /\ v_pc = "temperature"
    /\ v_i = 0
    /\ v_errors = <<>>
    /\ v_passed = "none"
    /\ AuxIdle

NextValidator == CheckTemperatureRow \/ CheckTemperatureReturn

SpecValidator == InitValidator /\ [][NextValidator]_vars

(***************************************************************************)
(* The validator's cell coercion (validate_csv).  A cleaned value is a     *)
(* record [t, b, n, s]: t in {"null", "bool", "int", "float", "str"}, b    *)
(* the boolean, n the integer or the float in thousandths, s the text.     *)
(***************************************************************************)
VNull == [t |-> "null", b |-> FALSE, n |-> 0, s |-> <<>>]
VBool(x) == [t |-> "bool", b |-> x, n |-> 0, s |-> <<>>]
VInt(k) == [t |-> "int", b |-> FALSE, n |-> k, s |-> <<>>]
VFloat(m) == [t |-> "float", b |-> FALSE, n |-> m, s |-> <<>>]
VStr(txt) == [t |-> "str", b |-> FALSE, n |-> 0, s |-> txt]

SufScore == <<"_", "s", "c", "o", "r", "e">>
SufWeight == <<"_", "w", "e", "i", "g", "h", "t">>
SufPrice == <<"p", "r", "i", "c", "e">>
WordTrue == <<"t", "r", "u", "e">>
WordFalse == <<"f", "a", "l", "s", "e">>

\* k.endswith(suffix)
EndsWith(k, suffix) ==
    /\ Len(k) >= Len(suffix)
    /\ SubSeq(k, Len(k) - Len(suffix) + 1, Len(k)) = suffix

\* `v if v != "" else None`
EmptyToNone(cell) == IF cell = <<>> THEN VNull ELSE VStr(cell)

\* `if v in ("true", "false"): row_cleaned[k] = (v == "true")`
BoolWords(v) ==
    IF v.t = "str" /\ v.s \in {WordTrue, WordFalse}
    THEN VBool(v.s = WordTrue)
    ELSE v

\* `if v:` on a string, a boolean or None
Truthy(v) == (v.t = "str" /\ v.s # <<>>) \/ (v.t = "bool" /\ v.b)

\* int(v): [ok, v]; int(True) is 1
IntOf(v) == IF v.t = "bool" THEN [ok |-> TRUE, v |-> 1] ELSE PyInt(v.s)

\* float(v): [ok, milli]; float(True) is 1.0
FloatOf(v) ==
    IF v.t = "bool" THEN [ok |-> TRUE, milli |-> 1000] ELSE PyFloat(v.s)

\* the numeric conversions; a ValueError leaves the value as it was
Numeric(k, v) ==
    IF ~Truthy(v) THEN v
    ELSE IF EndsWith(k, SufScore)
    THEN IF IntOf(v).ok THEN VInt(IntOf(v).v) ELSE v
    ELSE IF EndsWith(k, SufWeight) \/ EndsWith(k, SufPrice)
    THEN IF FloatOf(v).ok THEN VFloat(FloatOf(v).milli) ELSE v
    ELSE v

CoerceNoBooleans(k, cell) == Numeric(k, EmptyToNone(cell))

\* the value validate_csv hands to the schema for cell `cell` of field k
Coerce(k, cell) == Numeric(k, BoolWords(EmptyToNone(cell)))

FPrice == <<"p", "r", "i", "c", "e">>
FListPrice == <<"l", "i", "s", "t", "_", "p", "r", "i", "c", "e">>
FWeight == <<"s", "a", "m", "p", "l", "i", "n", "g", "_", "w", "e", "i", "g",
             "h", "t">>
FScore == <<"l", "_", "t", "o", "k", "e", "n", "_", "s", "c", "o", "r", "e">>
FBrand == <<"b", "r", "a", "n", "d">>
FCandidate == <<"p", "h", "i", "_", "c", "a", "n", "d", "i", "d", "a", "t",
                "e">>
FScores == <<"s", "c", "o", "r", "e", "s">>

FieldNames ==
    {FPrice, FListPrice, FWeight, FScore, FBrand, FCandidate, FScores}

CellTexts ==
    {<<>>, WordTrue, WordFalse, <<"T", "r", "u", "e">>, <<"3">>, <<"0">>,
     <<"-", "2">>, <<"1", ".", "5">>, <<"0", ".", "0">>, <<"a", "b", "c">>}

CoerceCell ==
    /\ "field" \in DOMAIN co
    /\ ~co.done
    /\ co' = [co EXCEPT !.done = TRUE, !.out = Coerce(co.field, co.cell)]
    /\ UNCHANGED <<cls, ord, vm, we, ex, sc>>
    /\ UNCHANGED normVars
    /\ UNCHANGED valVars

InitCoerce ==
    /\ sc = ScIdle
    /\ hints = HintsA
    /\ cls = ClsIdle
    /\ NormIdle
    /\ ord = OrdIdle
    /\ ValIdle
    /\ vm = VmIdle
    /\ we = WeIdle
    /\ ex = ExIdle
    /\ \E k \in FieldNames, c \in CellTexts :
        co = [done |-> FALSE, field |-> k, cell |-> c, out |-> VNull]

SpecCoerce == InitCoerce /\ [][CoerceCell]_vars

(***************************************************************************)
(* The validator's main: four checks in order, then the exit code.  The    *)
(* two schema files are inputs; a schema is [required, types], types       *)
(* giving the JSON types a column's value may have.                        *)
(***************************************************************************)
MaxMainRows == 2

ColumnChars ==
    [asin |-> <<"a", "s", "i", "n">>,
     sampling_weight |-> FWeight,
     l_max_token_score |->
        <<"l", "_", "m", "a", "x", "_", "t", "o", "k", "e", "n">> \o SufScore,
     extraction_temperature |->
        <<"e", "x", "t", "r", "a", "c", "t", "i", "o", "n", "_", "t", "e",
          "m", "p", "e", "r", "a", "t", "u", "r", "e">>,
     page_sha256 |->
        <<"p", "a", "g", "e", "_", "s", "h", "a", "2", "5", "6">>,
     claim_sha256 |->
        <<"c", "l", "a", "i", "m", "_", "s", "h", "a", "2", "5", "6">>]

\* row_cleaned of one row
CleanRow(row) == [c \in DOMAIN row |-> Coerce(ColumnChars[c], row[c])]

\* the JSON types a cleaned value is an instance of
JsonTypes(v) ==
    CASE v.t = "null" -> {"null"}
      [] v.t = "bool" -> {"boolean"}
      [] v.t = "int" -> {"integer", "number"}
      [] v.t = "float" ->
            IF v.n % 1000 = 0 THEN {"integer", "number"} ELSE {"number"}
      [] OTHER -> {"string"}

\* jsonschema.validate(row_cleaned, schema) raises no ValidationError
Conforms(cleaned, schema) ==
    /\ schema.required \subseteq DOMAIN cleaned
    /\ \A c \in DOMAIN cleaned \cap DOMAIN schema.types :
        JsonTypes(cleaned[c]) \cap schema.types[c] # {}

RECURSIVE SchemaErrors(_, _, _)
SchemaErrors(table, schema, i) ==
    IF i > Len(table) THEN <<>>
    ELSE (IF Conforms(CleanRow(table[i]), schema) THEN <<>> ELSE <<i>>)
         \o SchemaErrors(table, schema, i + 1)

\* validate_csv: the rows the schema rejects, in order
validate_csv(table, schema) == SchemaErrors(table, schema, 1)

required_claims == <<"page_sha256", "claim_sha256">>

\* `for field in required: if not row.get(field): errors.append(...)`
RECURSIVE RequiredErrors(_, _, _)
RequiredErrors(row, i, required) ==
    IF required = <<>> THEN <<>>
    ELSE LET f == Head(required)
         IN  (IF f \notin DOMAIN row \/ row[f] = <<>>
              THEN <<[row |-> i, field |-> f]>>
              ELSE <<>>)
             \o RequiredErrors(row, i, Tail(required))

\* the errors of one row when only the first required field is tested
RowRequiredFirstOnly(row, i) ==
    RequiredErrors(row, i, SubSeq(required_claims, 1, 1))

RowRequired(row, i) == RequiredErrors(row, i, required_claims)

ProductSchema ==
    [required |-> {"asin"},
     types |-> [asin |-> {"string"},
                sampling_weight |-> {"number", "null"},
                l_max_token_score |-> {"integer"}]]

ClaimsSchema ==
    [required |-> {"extraction_temperature"},
     types |-> [extraction_temperature |-> {"string", "null"},
                page_sha256 |-> {"string"},
                claim_sha256 |-> {"string"}]]

PGood ==
    [asin |-> <<"B", "0", "A">>, sampling_weight |-> <<"1", ".", "0">>,
     l_max_token_score |-> <<"2">>]

PBad ==
    [asin |-> <<"B", "0", "B">>, sampling_weight |-> <<"a", "b", "c">>,
     l_max_token_score |-> <<"0">>]

ProductTables == {<<>>, <<PGood>>, <<PGood, PBad>>}

MainTempCells == {<<"0">>, <<"0", ".", "7">>, <<>>}

ShaCells == {<<>>, <<"a", "b">>}

\* claim rows with all three columns, and a row cut short after the first
MainRows ==
    {[extraction_temperature |-> t, page_sha256 |-> p, claim_sha256 |-> c] :
        t \in MainTempCells, p \in ShaCells, c \in ShaCells}
    \cup {[extraction_temperature |-> <<"0">>]}

MainClaimsTables == UNION {[1..n -> MainRows] : n \in 0..MaxMainRows}

\* `if passed: ... else: ... all_pass = False` after one check
Record(check, errors) ==
    [vm EXCEPT !.results = Append(@, [check |-> check,
                                      violations |-> Len(errors)]),
               !.all_pass = @ /\ (Len(errors) = 0)]

\* [1/4] validate_csv on the product table
MainProductSchema ==
    /\ vm.active
    /\ v_pc = "product_schema"
    /\ vm' = Record("product_schema",
                    validate_csv(vm.product, vm.product_schema))
    /\ v_pc' = "claims_schema"
    /\ UNCHANGED <<v_claims, v_i, v_errors, v_passed>>
    /\ UNCHANGED <<cls, ord, co, we, ex, sc>>
    /\ UNCHANGED normVars

\* [2/4] validate_csv on the claims table
MainClaimsSchema ==
    /\ vm.active
    /\ v_pc = "claims_schema"
    /\ vm' = Record("claims_schema", validate_csv(v_claims, vm.claims_schema))
    /\ v_pc' = "temperature"
    /\ v_i' = 0
    /\ v_errors' = <<>>
    /\ UNCHANGED <<v_claims, v_passed>>
    /\ UNCHANGED <<cls, ord, co, we, ex, sc>>
    /\ UNCHANGED normVars

\* [3/4] the result of check_extraction_temperature, then on to [4/4]
MainTemperatureResult ==
    /\ vm.active
    /\ v_pc = "temperature_done"
    /\ vm' = Record("temperature", v_errors)
    /\ v_pc' = "required"
    /\ v_i' = 0
    /\ v_errors' = <<>>
    /\ UNCHANGED <<v_claims, v_passed>>
    /\ UNCHANGED <<cls, ord, co, we, ex, sc>>
    /\ UNCHANGED normVars

\* one iteration of check_required_fields' loop over the rows
CheckRequiredRow ==
    /\ v_pc = "required"
    /\ v_i < Len(v_claims)
    /\ v_i' = v_i + 1
    /\ v_errors' = v_errors \o RowRequired(v_claims[v_i + 1], v_i + 1)
    /\ UNCHANGED <<v_claims, v_pc, v_passed>>
    /\ UNCHANGED <<cls, ord>>
    /\ UNCHANGED auxVars
    /\ UNCHANGED normVars

\* `return (len(errors) == 0), errors`
CheckRequiredReturn ==
    /\ v_pc = "required"
    /\ v_i = Len(v_claims)
    /\ v_passed' = (Len(v_errors) = 0)
    /\ v_pc' = "required_done"
    /\ UNCHANGED <<v_claims, v_i, v_errors>>
    /\ UNCHANGED <<cls, ord>>
    /\ UNCHANGED auxVars
    /\ UNCHANGED normVars

\* [4/4] recorded, the summary printed, `return 0 if all_pass else 1`
MainSummary ==
    /\ vm.active
    /\ v_pc = "required_done"
    /\ LET done == Record("required", v_errors)
       IN  vm' = [done EXCEPT !.exit = IF done.all_pass THEN 0 ELSE 1]
    /\ v_pc' = "exited"
    /\ UNCHANGED <<v_claims, v_i, v_errors, v_passed>>
    /\ UNCHANGED <<cls, ord, co, we, ex, sc>>
    /\ UNCHANGED normVars

\* an exception leaves main: the interpreter prints the traceback and
\* exits with status 1
MainTraceback ==
    /\ vm.active
    /\ v_pc = "raised"
    /\ vm' = [vm EXCEPT !.exit = 1, !.raised = TRUE]
    /\ v_pc' = "exited"
    /\ UNCHANGED <<v_claims, v_i, v_errors, v_passed>>
    /\ UNCHANGED <<cls, ord, co, we, ex, sc>>
    /\ UNCHANGED normVars

NoExit == 0 - 1

InitValidatorMain ==
    /\ sc = ScIdle
    /\ hints = HintsA
    /\ cls = ClsIdle
    /\ NormIdle
    /\ ord = OrdIdle
    /\ co = CoIdle
    /\ we = WeIdle
    /\ ex = ExIdle
    /\ v_claims \in MainClaimsTables
    /\ v_pc = "product_schema"
    /\ v_i = 0
    /\ v_errors = <<>>
    /\ v_passed = "none"
    /\ \E pt \in ProductTables :
        vm = [active |-> TRUE, product |-> pt,
              product_schema |-> ProductSchema,
              claims_schema |-> ClaimsSchema,
              all_pass |-> TRUE, results |-> <<>>, exit |-> NoExit,
              raised |-> FALSE]

NextValidatorMain ==
    \/ MainProductSchema
    \/ MainClaimsSchema
    \/ CheckTemperatureRow
    \/ CheckTemperatureReturn
    \/ MainTemperatureResult
    \/ CheckRequiredRow
    \/ CheckRequiredReturn
    \/ MainSummary
    \/ MainTraceback

SpecValidatorMain == InitValidatorMain /\ [][NextValidatorMain]_vars

(***************************************************************************)
(* The weight estimator (6_sampling_weights.py).  A product table is       *)
(* [header, rows]; a plan is its list of strata [name, allocation], the    *)
(* allocation in hundredths; a weight is kept in ten-thousandths.          *)
(***************************************************************************)
RoundDigits == 4

WeightUnit == 10000

AllocationUnit == 100

\* round(n / d, 4) in ten-thousandths, n / d already scaled: ties to even
RoundHalfEven(n, d) ==
    LET q == n \div d
        r == n % d
    IN  IF 2 * r > d THEN q + 1
        ELSE IF 2 * r < d THEN q
        ELSE IF q % 2 = 0 THEN q ELSE q + 1

\* str(w) for a float w rounded to four decimals
StrWeight(u) ==
    NatDigits(u \div WeightUnit) \o <<".">>
        \o StripZeros(ZeroPad(NatDigits(u % WeightUnit), RoundDigits))

\* p.get("category_hint", p.get("stratum", "unknown"))
StratumOf(p) ==
    IF "category_hint" \in DOMAIN p THEN p.category_hint
    ELSE IF "stratum" \in DOMAIN p THEN p.stratum
    ELSE "unknown"

\* the R cohort taken as the R rows whose weight is still the neutral one
IsRUnweighted(p) ==
    /\ "sampling_cohort" \in DOMAIN p
    /\ p.sampling_cohort = "R"
    /\ p.sampling_weight = <<"1", ".", "0">>

\* p.get("sampling_cohort") == "R"
IsR(p) == "sampling_cohort" \in DOMAIN p /\ p.sampling_cohort = "R"

RIndexes(rows) == {i \in 1..Len(rows) : IsR(rows[i])}

\* stratum_counts[stratum]
StratumCount(rows, s) ==
    Cardinality({i \in RIndexes(rows) : StratumOf(rows[i]) = s})

\* stratum_allocation: the last entry of a name wins
AllocationHas(strata, s) == \E k \in 1..Len(strata) : strata[k].name = s

AllocationOf(strata, s) ==
    LET ks == {k \in 1..Len(strata) : strata[k].name = s}
    IN  strata[CHOOSE k \in ks : \A j \in ks : j <= k].allocation

\* target_prop as a fraction [num, den]; the default 1.0 / len(...) is
\* evaluated whether or not the stratum is in the plan
TargetProp(strata, s) ==
    IF AllocationHas(strata, s)
    THEN [num |-> AllocationOf(strata, s), den |-> AllocationUnit]
    ELSE [num |-> 1, den |-> Len(strata)]

\* round(target_prop / (sample_count / total_r), 4)
WeightOf(rows, strata, i) ==
    LET s == StratumOf(rows[i])
        t == TargetProp(strata, s)
        total_r == Cardinality(RIndexes(rows))
        sample_count == StratumCount(rows, s)
    IN  IF sample_count > 0
        THEN RoundHalfEven(t.num * total_r * WeightUnit, t.den * sample_count)
        ELSE WeightUnit

\* weights[p["asin"]]: the last R row of an asin wins
WeightsOf(rows, strata) ==
    [a \in {rows[i].asin : i \in RIndexes(rows)} |->
        LET is == {i \in RIndexes(rows) : rows[i].asin = a}
        IN  WeightOf(rows, strata, CHOOSE i \in is : \A j \in is : j <= i)]

NoWeights == [a \in {} |-> 0]

compute_weights(rows, strata) ==
    IF RIndexes(rows) = {} THEN [error |-> "none", weights |-> NoWeights]
    ELSE IF Len(strata) = 0
    THEN [error |-> "ZeroDivisionError", weights |-> NoWeights]
    ELSE [error |-> "none", weights |-> WeightsOf(rows, strata)]

\* `if row["asin"] in weights: row["sampling_weight"] = str(...)`
UpdateRow(row, weights) ==
    IF row.asin \in DOMAIN weights
    THEN [c \in DOMAIN row \cup {"sampling_weight"} |->
            IF c = "sampling_weight" THEN StrWeight(weights[row.asin])
            ELSE row[c]]
    ELSE row

WAsins == <<"B01", "B02", "B03", "B04", "B05">>

StratumNames == {"sleep", "detox"}

\* the column that carries a product's stratum label: category_path in the
\* normaliser's table, category_hint or stratum in a product-URL table
LabelColumns == {"category_path", "category_hint", "stratum"}

\* the sampling_weight cell the normaliser writes
NormalizerWeight(cohort) == IF cohort = "R" THEN <<"1", ".", "0">> ELSE <<>>

ProductRow(i, labelcol, kind) ==
    [c \in {"asin", "platform", labelcol, "sampling_cohort",
            "sampling_weight"} |->
        CASE c = "asin" -> WAsins[i]
          [] c = "platform" -> "amazon"
          [] c = "sampling_cohort" -> kind[1]
          [] c = "sampling_weight" -> NormalizerWeight(kind[1])
          [] OTHER -> kind[2]]

TableHeader(labelcol) ==
    <<"asin", "platform", labelcol, "sampling_cohort", "sampling_weight">>

\* product tables of up to MaxRows rows, the header-only table included
WeightTables ==
    UNION {{[header |-> TableHeader(lc),
             rows |-> [i \in 1..n |-> ProductRow(i, lc, kinds[i])]] :
                kinds \in [1..n -> {"R", "T"} \X StratumNames]} :
           n \in 0..MaxRows, lc \in LabelColumns}

Plans ==
    {<<>>,
     <<[name |-> "sleep", allocation |-> 35],
       [name |-> "detox", allocation |-> 65]>>,
     <<[name |-> "sleep", allocation |-> 50],
       [name |-> "detox", allocation |-> 30],
       [name |-> "immune", allocation |-> 20]>>}

\* weights = compute_weights(args.product, plan)
ComputeWeights ==
    /\ we.pc = "start"
    /\ LET r == compute_weights(we.file.rows, we.plan)
       IN  we' = [we EXCEPT !.weights = r.weights, !.error = r.error,
                            !.pc = IF r.error = "none" THEN "computed"
                                   ELSE "raised"]
    /\ UNCHANGED <<cls, ord, vm, co, ex, sc>>
    /\ UNCHANGED normVars
    /\ UNCHANGED valVars

\* the table read again, the weight cells of the weighted asins replaced
UpdateRows ==
    /\ we.pc = "computed"
    /\ we' = [we EXCEPT !.rows = [i \in 1..Len(we.file.rows) |->
                                    UpdateRow(we.file.rows[i], we.weights)],
                        !.pc = "updated"]
    /\ UNCHANGED <<cls, ord, vm, co, ex, sc>>
    /\ UNCHANGED normVars
    /\ UNCHANGED valVars

\* open(args.product, "w") empties the file; rows[0] raises IndexError when
\* the table had no data row
WriteBack ==
    /\ we.pc = "updated"
    /\ IF we.rows = <<>>
       THEN we' = [we EXCEPT !.file = [header |-> <<>>, rows |-> <<>>],
                             !.error = "IndexError", !.pc = "raised"]
       ELSE we' = [we EXCEPT !.file = [header |-> we.file.header,
                                       rows |-> we.rows],
                             !.pc = "done"]
    /\ UNCHANGED <<cls, ord, vm, co, ex, sc>>
    /\ UNCHANGED normVars
    /\ UNCHANGED valVars

InitWeights ==
    /\ sc = ScIdle
    /\ hints = HintsA
    /\ cls = ClsIdle
    /\ NormIdle
    /\ ord = OrdIdle
    /\ ValIdle
    /\ vm = VmIdle
    /\ co = CoIdle
    /\ ex = ExIdle
    /\ \E t \in WeightTables, p \in Plans :
        we = [pc |-> "start", run |-> 1, plan |-> p, file |-> t, before |-> t,
              weights |-> NoWeights, rows |-> <<>>, error |-> "none"]

NextWeights == ComputeWeights \/ UpdateRows \/ WriteBack

SpecWeights == InitWeights /\ [][NextWeights]_vars

\* the estimator is started again on the table it has rewritten (also the
\* one it emptied before rows[0] raised), with the same plan
RunAgain ==
    /\ we.pc = "done" \/ (we.pc = "raised" /\ we.error = "IndexError")
    /\ we.run = 1
    /\ we' = [we EXCEPT !.run = 2, !.pc = "start", !.before = we.file,
                        !.weights = NoWeights, !.rows = <<>>,
                        !.error = "none"]
    /\ UNCHANGED <<cls, ord, vm, co, ex, sc>>
    /\ UNCHANGED normVars
    /\ UNCHANGED valVars

NextWeightsTwice == NextWeights \/ RunAgain

SpecWeightsTwice == InitWeights /\ [][NextWeightsTwice]_vars

(***************************************************************************)
(* The extraction engine (3_extract_claims.py): the zones of one page, the *)
(* rule-based extractor, and the LLM backend with its fallback.            *)
(***************************************************************************)
MaxZones == 2

MaxReps == 11

MaxRuleClaims == 20

DefaultMinClaimLength == 10

claim_keywords ==
    <<<<"p", "r", "o", "v", "e", "n">>,
      <<"c", "l", "i", "n", "i", "c", "a", "l", "l", "y">>,
      <<"g", "u", "a", "r", "a", "n", "t", "e", "e", "d">>,
      <<"e", "f", "f", "e", "c", "t", "i", "v", "e">>,
      <<"r", "e", "s", "u", "l", "t", "s">>,
      <<"c", "u", "r", "e">>,
      <<"t", "r", "e", "a", "t">>,
      <<"p", "r", "e", "v", "e", "n", "t">>,
      <<"r", "e", "l", "i", "e", "v", "e">>,
      <<"r", "e", "d", "u", "c", "e">>,
      <<"i", "m", "p", "r", "o", "v", "e">>,
      <<"b", "o", "o", "s", "t">>,
      <<"e", "n", "h", "a", "n", "c", "e">>,
      <<"s", "u", "p", "p", "o", "r", "t">>,
      <<"p", "r", "o", "m", "o", "t", "e">>,
      <<"i", "n", "s", "t", "a", "n", "t">>,
      <<"f", "a", "s", "t">>,
      <<"q", "u", "i", "c", "k">>,
      <<"i", "m", "m", "e", "d", "i", "a", "t", "e">>>>

\* the alternative \d+% : some digit stands right before a percent sign
DigitsPercent(s) ==
    \E i \in 1..(Len(s) - 1) : IsDigit(s[i]) /\ s[i + 1] = "%"

\* pattern.search(sentence), the pattern compiled with re.IGNORECASE
KeywordSearch(s) ==
    LET low == LowerStr(s)
    IN  \/ \E k \in 1..Len(claim_keywords) : Contains(low, claim_keywords[k])
        \/ DigitsPercent(s)

IsTerminator(c) == c \in {".", "!", "?"}

RECURSIVE Ascending(_)
Ascending(S) ==
    IF S = {} THEN <<>>
    ELSE LET m == CHOOSE x \in S : \A y \in S : x <= y
         IN  <<m>> \o Ascending(S \ {m})

\* re.split(r'[.!?]+', text) without its empty pieces: the maximal runs of
\* characters that are not terminators, in order
SplitSentences(text) ==
    LET n == Len(text)
        starts == {i \in 1..n :
                    /\ ~IsTerminator(text[i])
                    /\ (i = 1 \/ IsTerminator(text[i - 1]))}
        EndOf(s) ==
            LET stops == {j \in s..n : IsTerminator(text[j])}
            IN  IF stops = {} THEN n
                ELSE (CHOOSE j \in stops : \A k \in stops : j <= k) - 1
        order == Ascending(starts)
    IN  [k \in 1..Len(order) |-> SubSeq(text, order[k], EndOf(order[k]))]

\* str.strip()
Strip(s) ==
    LET inked == {i \in 1..Len(s) : s[i] # " "}
    IN  IF inked = {} THEN <<>>
        ELSE SubSeq(s, CHOOSE i \in inked : \A j \in inked : i <= j,
                       CHOOSE i \in inked : \A j \in inked : j <= i)

\* policy.get("min_claim_length", 10)
MinClaimLength(pol) ==
    IF "min_claim_length" \in DOMAIN pol THEN pol.min_claim_length
    ELSE DefaultMinClaimLength

RuleClaim(sentence) ==
    [text |-> sentence, source |-> "html", confidence |-> 600]

RECURSIVE ZoneClaims(_, _, _)
ZoneClaims(sentences, pol, k) ==
    IF k > Len(sentences) THEN <<>>
    ELSE LET sentence == Strip(sentences[k])
         IN  (IF KeywordSearch(sentence)
                    /\ Len(sentence) >= MinClaimLength(pol)
              THEN <<RuleClaim(sentence)>>
              ELSE <<>>)
             \o ZoneClaims(sentences, pol, k + 1)

RECURSIVE AllZoneClaims(_, _)
AllZoneClaims(sections, pol) ==
    IF sections = <<>> THEN <<>>
    ELSE ZoneClaims(SplitSentences(Head(sections).text), pol, 1)
         \o AllZoneClaims(Tail(sections), pol)

\* claims[-20:]
CapLast(cl) ==
    IF Len(cl) <= MaxRuleClaims THEN cl
    ELSE SubSeq(cl, Len(cl) - MaxRuleClaims + 1, Len(cl))

\* claims[:20]
Cap(cl) ==
    IF Len(cl) <= MaxRuleClaims THEN cl ELSE SubSeq(cl, 1, MaxRuleClaims)

extract_rules_based(sections, pol) == Cap(AllZoneClaims(sections, pol))

\* policy.get("use_llm", True)
UseLlm(pol) == IF "use_llm" \in DOMAIN pol THEN pol.use_llm ELSE TRUE

LlmClaim(item) ==
    [text |-> IF item.has_text THEN item.text ELSE <<>>,
     source |-> "html", confidence |-> 900]

\* json.loads(response.text) and the loop over claims_data: [ok, claims];
\* ok = FALSE stands for an exception raised inside the try block.  A
\* response is [kind, j, items]: kind "raise" when the call itself raised,
\* j the JSON type of the parsed text ("invalid" when it is not JSON), items
\* what iterating over the parsed value yields.
LlmClaims(resp) ==
    IF resp.kind = "raise" \/ resp.j \in {"invalid", "null", "number"}
    THEN [ok |-> FALSE, claims |-> <<>>]
    ELSE IF \E k \in 1..Len(resp.items) : ~resp.items[k].obj
    THEN [ok |-> FALSE, claims |-> <<>>]
    ELSE [ok |-> TRUE,
          claims |-> [k \in 1..Len(resp.items) |-> LlmClaim(resp.items[k])]]

\* extract_from_html after the zones are read: [claims, used]
extract_from_html(sections, pol, api_key, resp) ==
    IF sections = <<>> THEN [claims |-> <<>>, used |-> "none"]
    ELSE IF ~UseLlm(pol) \/ ~api_key \/ ~LlmClaims(resp).ok
    THEN [claims |-> extract_rules_based(sections, pol), used |-> "rules"]
    ELSE [claims |-> LlmClaims(resp).claims, used |-> "llm"]

image_keywords ==
    <<<<"p", "r", "o", "v", "e", "n">>,
      <<"c", "l", "i", "n", "i", "c", "a", "l", "l", "y">>,
      <<"g", "u", "a", "r", "a", "n", "t", "e", "e", "d">>,
      <<"e", "f", "f", "e", "c", "t", "i", "v", "e">>,
      <<"r", "e", "s", "u", "l", "t", "s">>,
      <<"c", "u", "r", "e">>,
      <<"t", "r", "e", "a", "t">>,
      <<"p", "r", "e", "v", "e", "n", "t">>,
      <<"m", "i", "r", "a", "c", "l", "e">>,
      <<"i", "n", "s", "t", "a", "n", "t">>,
      <<"1", "0", "0", "%">>>>

\* pattern.search(raw_text) with the image keywords
ImageKeywordSearch(s) ==
    LET low == LowerStr(s)
    IN  \/ \E k \in 1..Len(image_keywords) : Contains(low, image_keywords[k])
        \/ DigitsPercent(s)

DefaultOcrThreshold == 70

MaxOcrText == 500

\* policy.get("ocr_confidence_threshold", 0.7) * 100
OcrThreshold(pol) ==
    IF "ocr_confidence_threshold" \in DOMAIN pol
    THEN pol.ocr_confidence_threshold
    ELSE DefaultOcrThreshold

\* policy.get("use_llm_for_ocr_cleanup", False)
UseCleanup(pol) ==
    IF "use_llm_for_ocr_cleanup" \in DOMAIN pol
    THEN pol.use_llm_for_ocr_cleanup
    ELSE FALSE

\* the stripped, non-empty texts of the tokens above the threshold
RECURSIVE KeptTexts(_, _)
KeptTexts(tokens, threshold) ==
    IF tokens = <<>> THEN <<>>
    ELSE (IF Head(tokens).conf > threshold /\ Strip(Head(tokens).text) # <<>>
          THEN <<Strip(Head(tokens).text)>> ELSE <<>>)
         \o KeptTexts(Tail(tokens), threshold)

\* _cleanup_ocr_with_llm: every failure gives the empty list
cleanup_ocr_with_llm(api_key, resp) ==
    IF ~api_key \/ ~LlmClaims(resp).ok THEN <<>>
    ELSE [k \in 1..Len(resp.items) |->
            [text |-> LlmClaims(resp).claims[k].text, source |-> "image",
             confidence |-> 750]]

\* extract_from_image: [claims, used]
extract_from_image(img, pol, api_key, resp) ==
    LET texts == KeptTexts(img.tokens, OcrThreshold(pol))
        raw_text == JoinSpace(texts)
    IN  IF ~img.tesseract \/ ~img.ocr_ok \/ texts = <<>>
        THEN [claims |-> <<>>, used |-> "none"]
        ELSE IF UseCleanup(pol)
        THEN [claims |-> cleanup_ocr_with_llm(api_key, resp),
              used |-> "ocr_llm"]
        ELSE [claims |->
                IF ImageKeywordSearch(raw_text)
                THEN <<[text |-> SubSeq(raw_text, 1,
                                        IF Len(raw_text) < MaxOcrText
                                        THEN Len(raw_text) ELSE MaxOcrText),
                        source |-> "image", confidence |-> 700]>>
                ELSE <<>>,
              used |-> "ocr"]

\* the sentences pages are made of: text, the terminator that follows it in
\* the page, and whether it is a claim sentence (a keyword in it and at
\* least ten characters long)
Sentence ==
    [Q1 |-> [text |-> <<"P", "r", "o", "v", "e", "n", " ", "c", "u", "r", "e">>,
             term |-> <<".", " ">>, qualifies |-> TRUE],
     Q2 |-> [text |-> <<"b", "o", "o", "s", "t", " ", "b", "y", " ", "5", "0",
                        "%">>,
             term |-> <<"!", " ">>, qualifies |-> TRUE],
     F |-> [text |-> <<"F", "a", "s", "t">>,
            term |-> <<"?", "!", " ">>, qualifies |-> FALSE],
     P |-> [text |-> <<"s", "o", "f", "t", " ", "c", "o", "t", "t", "o", "n">>,
            term |-> <<".">>, qualifies |-> FALSE]]

ZonePatterns == {<<"Q1", "Q2">>, <<"F", "Q1">>, <<"P">>}

RECURSIVE PatternText(_)
PatternText(ids) ==
    IF ids = <<>> THEN <<>>
    ELSE Sentence[Head(ids)].text \o Sentence[Head(ids)].term
         \o PatternText(Tail(ids))

RECURSIVE Repeat(_, _)
Repeat(s, n) == IF n = 0 THEN <<>> ELSE s \o Repeat(s, n - 1)

\* a zone is a pattern of sentences written reps times
ZoneKinds == {[pattern |-> p, reps |-> r] : p \in ZonePatterns, r \in {1, MaxReps}}

ZoneSources == <<"title", "bullet", "description", "aplus", "aplus">>

SectionsOf(zones) ==
    [i \in 1..Len(zones) |->
        [source |-> ZoneSources[i],
         text |-> Repeat(PatternText(zones[i].pattern), zones[i].reps)]]

ZoneLists == UNION {[1..n -> ZoneKinds] : n \in 0..MaxZones}

Policies == {[use_llm |-> TRUE], [use_llm |-> FALSE], [model |-> "gemini"]}

InventedText == <<"C", "u", "r", "e", "s", " ", "a", "l", "l">>

Item(obj, has_text, text) == [obj |-> obj, has_text |-> has_text, text |-> text]

Response(kind, j, items) == [kind |-> kind, j |-> j, items |-> items]

NoResponse == Response("none", "none", <<>>)

\* what the model may answer for a page whose first zone starts with `first`
LlmResponses(first) ==
    {Response("raise", "none", <<>>),
     Response("text", "invalid", <<>>),
     Response("text", "null", <<>>),
     Response("text", "dict", <<>>),
     Response("text", "dict", <<Item(FALSE, FALSE, <<>>)>>),
     Response("text", "list", <<>>),
     Response("text", "list", <<Item(FALSE, FALSE, <<>>)>>),
     Response("text", "list", <<Item(TRUE, FALSE, <<>>)>>),
     Response("text", "list", <<Item(TRUE, TRUE, first)>>),
     Response("text", "list", <<Item(TRUE, TRUE, first),
                                Item(TRUE, TRUE, InventedText)>>)}

FirstSentence(zones) ==
    IF zones = <<>> THEN <<>> ELSE Sentence[Head(zones[1].pattern)].text

Token(text, conf) == [text |-> text, conf |-> conf]

TokenLists ==
    {<<Token(<<"P", "r", "o", "v", "e", "n">>, 95),
       Token(<<" ", "c", "u", "r", "e", " ">>, 80),
       Token(<<" ">>, 99),
       Token(<<"x">>, 40)>>,
     <<Token(<<"s", "o", "f", "t">>, 90)>>,
     <<Token(<<"c", "u", "r", "e">>, 60)>>}

Images ==
    {[tesseract |-> t, ocr_ok |-> o, tokens |-> tk] :
        t \in BOOLEAN, o \in BOOLEAN, tk \in TokenLists}

NoImage == [tesseract |-> FALSE, ocr_ok |-> FALSE, tokens |-> <<>>]

ImagePolicies == {[model |-> "gemini"], [use_llm_for_ocr_cleanup |-> TRUE]}

\* the text an image carries: its tokens, stripped and joined
ImageSections(img) ==
    <<[source |-> "image", text |-> JoinSpace(KeptTexts(img.tokens, 0))]>>

ExtractFromImage ==
    /\ ex.pc = "start"
    /\ ex.path = "image"
    /\ LET r == extract_from_image(ex.image, ex.policy, ex.api_key,
                                   ex.response)
       IN  ex' = [ex EXCEPT !.result = r.claims, !.used = r.used,
                            !.pc = "done"]
    /\ UNCHANGED <<cls, ord, vm, co, we, sc>>
    /\ UNCHANGED normVars
    /\ UNCHANGED valVars

ExtractFromHtml ==
    /\ ex.pc = "start"
    /\ ex.path = "html"
    /\ LET r == extract_from_html(ex.sections, ex.policy, ex.api_key,
                                  ex.response)
       IN  ex' = [ex EXCEPT !.result = r.claims, !.used = r.used,
                            !.pc = "done"]
    /\ UNCHANGED <<cls, ord, vm, co, we, sc>>
    /\ UNCHANGED normVars
    /\ UNCHANGED valVars

InitExtract ==
    /\ sc = ScIdle
    /\ hints = HintsA
    /\ cls = ClsIdle
    /\ NormIdle
    /\ ord = OrdIdle
    /\ ValIdle
    /\ vm = VmIdle
    /\ co = CoIdle
    /\ we = WeIdle
    /\ \/ \E zones \in ZoneLists, pol \in Policies, key \in BOOLEAN :
            \E resp \in IF UseLlm(pol) /\ key
                        THEN LlmResponses(FirstSentence(zones))
                        ELSE {NoResponse} :
                ex = [pc |-> "start", path |-> "html", zones |-> zones,
                      sections |-> SectionsOf(zones), image |-> NoImage,
                      policy |-> pol, api_key |-> key, response |-> resp,
                      result |-> <<>>, used |-> "none"]
       \/ \E img \in Images, pol \in ImagePolicies, key \in BOOLEAN :
            \E resp \in IF UseCleanup(pol) /\ key
                        THEN LlmResponses(ImageSections(img)[1].text)
                        ELSE {NoResponse} :
                ex = [pc |-> "start", path |-> "image", zones |-> <<>>,
                      sections |-> ImageSections(img), image |-> img,
                      policy |-> pol, api_key |-> key, response |-> resp,
                      result |-> <<>>, used |-> "none"]

NextExtract == ExtractFromHtml \/ ExtractFromImage

SpecExtract == InitExtract /\ [][NextExtract]_vars

(***************************************************************************)
(* The extraction stage's run (3_extract_claims.py, main), and the         *)
(* Normalizer opening its output.  A page is [asin, html, html_claims,     *)
(* assets]: whether <asin>.html is in the cache, what extract_from_html    *)
(* returns for it, and the asin's rows of the assets index, each with the  *)
(* claims extract_from_image returns for it.                               *)
(***************************************************************************)
MaxPages == 2

PageAsins == <<"B0A", "B0B", "B0C", "B0D">>

ClaimLists == {<<>>, <<[text |-> TxtDetoxMay]>>}

AssetLists ==
    {<<>>} \cup
    {<<[asset_type |-> t, claims |-> c]>> :
        t \in {"image", "video"}, c \in ClaimLists}

PageLists ==
    UNION {{[i \in 1..n |-> [asin |-> PageAsins[i], html |-> h[i],
                             html_claims |-> hc[i], assets |-> as[i]]] :
                h \in [1..n -> BOOLEAN], hc \in [1..n -> ClaimLists],
                as \in [1..n -> AssetLists]} :
           n \in 0..MaxPages}

ExtractionOf(asin, source, claim_list) ==
    [asin |-> asin, source |-> source, claims |-> claim_list]

\* "Extract from images": one record per image asset with claims
RECURSIVE ImageRecords(_, _)
ImageRecords(asin, assets) ==
    IF assets = <<>> THEN <<>>
    ELSE (IF Head(assets).asset_type = "image" /\ Head(assets).claims # <<>>
          THEN <<ExtractionOf(asin, "image", Head(assets).claims)>>
          ELSE <<>>) \o ImageRecords(asin, Tail(assets))

\* the records one product with cached HTML adds to extractions
PageRecords(page) ==
    (IF page.html_claims # <<>>
     THEN <<ExtractionOf(page.asin, "html", page.html_claims)>>
     ELSE <<>>) \o ImageRecords(page.asin, page.assets)

\* a missing page ends the loop over the products
AfterMissingBreak(i, n) == n

\* `continue`: the loop goes on with the next product
AfterMissing(i, n) == i + 1

NothingConsumed == [done |-> FALSE, lines |-> <<>>, complete |-> FALSE]

\* the temperature check and the loading of the two indexes
MainStart ==
    /\ ex.pc = "start"
    /\ ex' = [ex EXCEPT !.pc = IF ex.temperature_zero THEN "loop"
                               ELSE "raised"]
    /\ UNCHANGED <<cls, ord, vm, co, we, sc>>
    /\ UNCHANGED normVars
    /\ UNCHANGED valVars

\* one iteration of `for asin, page_row in pages_data.items()`
MainProduct ==
    /\ ex.pc = "loop"
    /\ ex.i < Len(ex.pages)
    /\ LET page == ex.pages[ex.i + 1]
       IN  IF ~page.html
           THEN ex' = [ex EXCEPT !.i = AfterMissing(ex.i, Len(ex.pages))]
           ELSE ex' = [ex EXCEPT !.i = ex.i + 1,
                                 !.extractions = @ \o PageRecords(page)]
    /\ UNCHANGED <<cls, ord, vm, co, we, sc>>
    /\ UNCHANGED normVars
    /\ UNCHANGED valVars

\* open(args.out, "w") after the loop: the file exists and is empty
MainOpenOut ==
    /\ ex.pc = "loop"
    /\ ex.i = Len(ex.pages)
    /\ ex' = [ex EXCEPT !.pc = "writing", !.out_exists = TRUE]
    /\ UNCHANGED <<cls, ord, vm, co, we, sc>>
    /\ UNCHANGED normVars
    /\ UNCHANGED valVars

\* f.write(json.dumps(extraction) + "\n"): the line goes to the file
\* object's buffer, which reaches the file when it is full or at the close
\* that ends the `with` block
MainWrite ==
    /\ ex.pc = "writing"
    /\ IF ex.wrote < Len(ex.extractions)
       THEN \E f \in {ex.flushed, ex.wrote + 1} :
                ex' = [ex EXCEPT !.wrote = @ + 1, !.flushed = f]
       ELSE ex' = [ex EXCEPT !.flushed = ex.wrote, !.pc = "written"]
    /\ UNCHANGED <<cls, ord, vm, co, we, sc>>
    /\ UNCHANGED normVars
    /\ UNCHANGED valVars

\* the process is ended while it writes; what is in the buffer is lost
MainKilled ==
    /\ ex.pc = "writing"
    /\ ex' = [ex EXCEPT !.pc = "killed"]
    /\ UNCHANGED <<cls, ord, vm, co, we, sc>>
    /\ UNCHANGED normVars
    /\ UNCHANGED valVars

\* 4_normalize_to_csv.py, `with open(args.raw) as f: for ... in f`: the
\* Normalizer, started while the extraction process writes or after it has
\* ended, reads the lines the file holds
NormalizerOpensRaw ==
    /\ ex.pc \in {"writing", "written", "killed"}
    /\ ex.out_exists
    /\ ~ex.consumed.done
    /\ ex' = [ex EXCEPT !.consumed =
                [done |-> TRUE,
                 lines |-> SubSeq(ex.extractions, 1, ex.flushed),
                 complete |-> ex.pc = "written"]]
    /\ UNCHANGED <<cls, ord, vm, co, we, sc>>
    /\ UNCHANGED normVars
    /\ UNCHANGED valVars

InitExtractionRun ==
    /\ hints = HintsA
    /\ cls = ClsIdle
    /\ NormIdle
    /\ ord = OrdIdle
    /\ ValIdle
    /\ vm = VmIdle
    /\ co = CoIdle
    /\ we = WeIdle
    /\ sc = ScIdle
    /\ \E pages \in PageLists, tz \in BOOLEAN :
        ex = [pc |-> "start", temperature_zero |-> tz, pages |-> pages,
              i |-> 0, extractions |-> <<>>, wrote |-> 0, flushed |-> 0,
              out_exists |-> FALSE, consumed |-> NothingConsumed]

NextExtractionRun ==
    \/ MainStart
    \/ MainProduct
    \/ MainOpenOut
    \/ MainWrite
    \/ MainKilled
    \/ NormalizerOpensRaw

SpecExtractionRun == InitExtractionRun /\ [][NextExtractionRun]_vars

(***************************************************************************)
(* The scraper (2_scrape_pages.py): main's loop over the product URLs and  *)
(* fetch_page.  Time is in seconds: waited is the time slept since the     *)
(* last dispatch of a page request, last_gap the value it had when the     *)
(* last request was dispatched.  A response is its status code and whether *)
(* its text is non-empty; status 0 stands for an exception.                *)
(***************************************************************************)
MaxUrls == 2

MaxRetries == 2

ThrottleChoices == {1, 3}

BackoffChoices == {1, 2}

ScrapePolicies ==
    {[throttle_seconds |-> t, max_retries |-> m, backoff_factor |-> b] :
        t \in ThrottleChoices, m \in 0..MaxRetries, b \in BackoffChoices}

HttpOk == 200

\* what requests.get gives: a response, or an exception (status 0)
Responses ==
    {[status_code |-> HttpOk, html |-> TRUE],
     [status_code |-> HttpOk, html |-> FALSE],
     [status_code |-> 503, html |-> TRUE],
     [status_code |-> 0, html |-> FALSE]}

NoResult == [status_code |-> 0, html |-> FALSE]

RECURSIVE Pow(_, _)
Pow(b, e) == IF e = 0 THEN 1 ELSE b * Pow(b, e - 1)

\* a wait that grows linearly with the attempt number
BackoffWaitLinear(backoff_factor, attempt) == backoff_factor * attempt

\* wait_time = backoff_factor ** attempt
BackoffWait(backoff_factor, attempt) == Pow(backoff_factor, attempt)

\* `for attempt in range(max_retries + 1)`
AttemptsAllowed(max_retries) == max_retries + 1

\* main: check_robots_txt returns False (disallowed, or robots.txt could
\* not be read): the row is skipped
RobotsSkip ==
    /\ sc.pc = "row"
    /\ sc.i < sc.n
    /\ sc' = [sc EXCEPT !.i = @ + 1, !.outcomes = Append(@, "robots")]
    /\ UNCHANGED <<cls, ord, vm, co, we, ex>>
    /\ UNCHANGED normVars
    /\ UNCHANGED valVars

\* main calls fetch_page, which sleeps throttle_seconds before its loop
FetchBegin ==
    /\ sc.pc = "row"
    /\ sc.i < sc.n
    /\ sc' = [sc EXCEPT !.pc = "attempt", !.attempt = 0, !.requests = 0,
                        !.slept = 0, !.result = NoResult,
                        !.waited = @ + sc.policy.throttle_seconds]
    /\ UNCHANGED <<cls, ord, vm, co, we, ex>>
    /\ UNCHANGED normVars
    /\ UNCHANGED valVars

\* one iteration of the retry loop: the request is dispatched; status 200
\* returns the page; any other status or an exception sleeps
\* backoff_factor ** attempt and goes on when attempt < max_retries, and
\* returns an empty page otherwise.  With max_retries >= 0 the last
\* iteration returns, so the return after the loop is not reached
Attempt ==
    /\ sc.pc = "attempt"
    /\ sc.attempt < AttemptsAllowed(sc.policy.max_retries)
    /\ \E response \in Responses :
        LET wait_time == BackoffWait(sc.policy.backoff_factor, sc.attempt)
            sent == [sc EXCEPT !.requests = @ + 1, !.sent = TRUE,
                               !.last_gap = sc.waited, !.waited = 0]
        IN  IF response.status_code = HttpOk
            THEN sc' = [sent EXCEPT !.pc = "returned", !.result = response]
            ELSE IF sc.attempt < sc.policy.max_retries
            THEN sc' = [sent EXCEPT !.attempt = @ + 1, !.slept = wait_time,
                                    !.waited = wait_time]
            ELSE sc' = [sent EXCEPT !.pc = "returned",
                                    !.result =
                                        [status_code |-> response.status_code,
                                         html |-> FALSE]]
    /\ UNCHANGED <<cls, ord, vm, co, we, ex>>
    /\ UNCHANGED normVars
    /\ UNCHANGED valVars

\* main, after fetch_page: a result that is not a non-empty 200 page skips
\* the row; otherwise the page is saved and indexed
RowEnd ==
    /\ sc.pc = "returned"
    /\ IF sc.result.status_code # HttpOk \/ ~sc.result.html
       THEN sc' = [sc EXCEPT !.pc = "row", !.i = @ + 1,
                             !.outcomes = Append(@, "failed")]
       ELSE sc' = [sc EXCEPT !.pc = "row", !.i = @ + 1,
                             !.outcomes = Append(@, "saved"),
                             !.pages = Append(@, sc.i + 1)]
    /\ UNCHANGED <<cls, ord, vm, co, we, ex>>
    /\ UNCHANGED normVars
    /\ UNCHANGED valVars

\* "Write SHA256 index", "Write assets index"
WriteIndexes ==
    /\ sc.pc = "row"
    /\ sc.i = sc.n
    /\ sc' = [sc EXCEPT !.pc = "done"]
    /\ UNCHANGED <<cls, ord, vm, co, we, ex>>
    /\ UNCHANGED normVars
    /\ UNCHANGED valVars

InitScraper ==
    /\ hints = HintsA
    /\ cls = ClsIdle
    /\ NormIdle
    /\ ord = OrdIdle
    /\ ValIdle
    /\ vm = VmIdle
    /\ co = CoIdle
    /\ we = WeIdle
    /\ ex = ExIdle
    /\ \E pol \in ScrapePolicies, n \in 0..MaxUrls :
        sc = [pc |-> "row", policy |-> pol, n |-> n, i |-> 0, attempt |-> 0,
              requests |-> 0, sent |-> FALSE, waited |-> 0, last_gap |-> 0,
              slept |-> 0, result |-> NoResult, outcomes |-> <<>>,
              pages |-> <<>>]

NextScraper ==
    \/ RobotsSkip
    \/ FetchBegin
    \/ Attempt
    \/ RowEnd
    \/ WriteIndexes

SpecScraper == InitScraper /\ [][NextScraper]_vars

\* every call the scraper blocks on returns (requests.get has a timeout,
\* the sleeps are finite), so the run takes its next step
SpecScraperFair == SpecScraper /\ WF_vars(NextScraper)

(***************************************************************************)
(* Properties.                                                             *)
(***************************************************************************)
EmptyJsonList == <<"[", "]">>

ProductRows == DictValues(products)

ClaimsOf(asin) == {j \in 1..Len(claims) : claims[j].asin = asin}

ScoreOf(c) == PyInt(c.l_token_score).v

\* the claims of the stream in stream order, each with the line it is on
RECURSIVE FlatFrom(_, _)
FlatFrom(r, e) ==
    IF e > Len(r) THEN <<>>
    ELSE [j \in 1..Len(r[e].claims) |->
            [e |-> e, text |-> r[e].claims[j].text]] \o FlatFrom(r, e + 1)

Flat == FlatFrom(raw, 1)

\* C1: the gate_hint of every ClaimRecord follows the fixed priority over
\* the record's own hint lists and score: K match, else Phi match, else
\* score >= 3 (l_hard), else score > 0 (l_soft), else none.
C1_GateHintPriority ==
    \A i \in 1..Len(claims) :
        LET c == claims[i]
            kHit == c.k_hint_ids # EmptyJsonList
            phiHit == c.phi_hint_ids # EmptyJsonList
            score == ScoreOf(c)
        IN  /\ kHit => c.gate_hint = "k_candidate"
            /\ (~kHit /\ phiHit) => c.gate_hint = "phi_candidate"
            /\ (~kHit /\ ~phiHit /\ score >= 3) => c.gate_hint = "l_hard"
            /\ (~kHit /\ ~phiHit /\ score > 0 /\ score < 3)
                    => c.gate_hint = "l_soft"
            /\ (~kHit /\ ~phiHit /\ score <= 0) => c.gate_hint = "none"

\* a claim with a K match and an L score of at least 3 was emitted
C1_Witness ==
    \E i \in 1..Len(claims) :
        /\ claims[i].k_hint_ids # EmptyJsonList
        /\ ScoreOf(claims[i]) >= 3
        /\ claims[i].gate_hint = "k_candidate"

\* C2: a product's phi_any_candidate (k_any_candidate) is true exactly when
\* one of the claims of its asin has a non-empty phi (k) hint-id list.
C2_FlagsAreOrOverClaims ==
    \A i \in 1..Len(products) :
        LET p == ProductRows[i]
        IN  /\ p.phi_any_candidate \in {"true", "false"}
            /\ p.k_any_candidate \in {"true", "false"}
            /\ (p.phi_any_candidate = "true") <=>
                (\E j \in ClaimsOf(p.asin) :
                    claims[j].phi_hint_ids # EmptyJsonList)
            /\ (p.k_any_candidate = "true") <=>
                (\E j \in ClaimsOf(p.asin) :
                    claims[j].k_hint_ids # EmptyJsonList)

\* the pass is over; a product has a Phi-matching claim followed by a claim
\* that matches nothing, and another product has no claim at all
C2_Witness ==
    /\ pc = "done"
    /\ \E i \in 1..Len(products) : ClaimsOf(ProductRows[i].asin) = {}
    /\ \E j, k \in 1..Len(claims) :
        /\ j < k
        /\ claims[j].asin = claims[k].asin
        /\ claims[j].phi_hint_ids # EmptyJsonList
        /\ claims[k].phi_hint_ids = EmptyJsonList

SetMax(S) == CHOOSE m \in S : \A x \in S : x <= m

\* C3: after the pass, l_max_token_score of every product that has a claim
\* is the maximum l_token_score of the claims of its asin.
C3_MaxScoreIsMaxOverClaims ==
    pc = "done" =>
        \A i \in 1..Len(products) :
            LET p == ProductRows[i]
            IN  ClaimsOf(p.asin) # {} =>
                    PyInt(p.l_max_token_score).v =
                        SetMax({ScoreOf(claims[j]) : j \in ClaimsOf(p.asin)})

IsZeroCell(cell) == PyFloat(cell).ok /\ PyFloat(cell).milli = 0

\* C4 as stated: every ClaimRecord has extraction_temperature 0, whatever
\* stream the Normalizer is given.
C4_TemperatureAlwaysZero ==
    \A i \in 1..Len(claims) : IsZeroCell(claims[i].extraction_temperature)

\* C4: every ClaimRecord carries the temperature of the extraction record
\* it came from, unchanged; it is 0 when that record's temperature is 0,
\* as in every stream the extraction stage has written.
C4_TemperatureCopied ==
    \A i \in 1..Len(claims) :
        LET temp == raw[Flat[i].e].extraction.temperature
        IN  /\ claims[i].extraction_temperature = PyStr(temp)
            /\ ~PyNotZero(temp) => IsZeroCell(claims[i].extraction_temperature)
            /\ ext_pc = "written" =>
                    IsZeroCell(claims[i].extraction_temperature)

\* the extraction stage wrote the stream at temperature 0.0 and the
\* Normalizer emitted a claim from it
C4_Witness ==
    /\ ext_pc = "written"
    /\ policy.temperature = JFloat(0)
    /\ \E i \in 1..Len(claims) :
        claims[i].extraction_temperature = <<"0", ".", "0">>

\* C5: claim_sha256 of every ClaimRecord is the hash of the text stored in
\* the same record's claim_text_verbatim, which is the claim's text in the
\* stream.
C5_HashOfStoredText ==
    \A i \in 1..Len(claims) :
        /\ claims[i].claim_text_verbatim = Flat[i].text
        /\ claims[i].claim_sha256 =
                Sha256Hex(Encode(claims[i].claim_text_verbatim))

\* a claim whose text has upper-case letters was emitted
C5_Witness ==
    \E i \in 1..Len(claims) :
        /\ claims[i].claim_text_verbatim = TxtProvenMay
        /\ claims[i].claim_sha256 = Sha256Hex(Encode(TxtProvenMay))

RowsWithAsin(rows, asin) == {i \in 1..Len(rows) : rows[i].asin = asin}

\* C6: during the pass and in the written tables, the asin of every
\* ClaimRecord is the asin of exactly one ProductRecord, and no asin has two
\* product rows.
C6_ClaimAsinHasOneProduct ==
    /\ \A j \in 1..Len(claims) :
        Cardinality(RowsWithAsin(ProductRows, claims[j].asin)) = 1
    /\ \A i \in 1..Len(products) :
        /\ products[i].key = ProductRows[i].asin
        /\ RowsWithAsin(ProductRows, ProductRows[i].asin) = {i}
    /\ \A j \in 1..Len(claims_out.rows) :
        Cardinality(RowsWithAsin(product_out.rows, claims_out.rows[j].asin)) = 1

\* both tables are written; they hold claims of two asins
C6_Witness ==
    /\ pc = "done"
    /\ Len(product_out.rows) = 2
    /\ \E j, k \in 1..Len(claims_out.rows) :
        claims_out.rows[j].asin # claims_out.rows[k].asin

OrdinalOf(claim_id) == SubSeq(claim_id, 4, Len(claim_id))

\* C8: the claim emitted k-th (from 0) has ordinal k, and the ordinal field
\* has the same zero-padded width on every claim of the run.
C8_OrdinalFixedWidth ==
    ord.n > 0 =>
        /\ PyInt(OrdinalOf(ord.last)).v = ord.n - 1
        /\ Len(OrdinalOf(ord.last)) = Len(OrdinalOf(ord.first))

\* token occurs in text at some position, letter case ignored
Occurs(token, text) ==
    \E i \in 0..(Len(text) - Len(token)) :
        \A j \in 1..Len(token) : LowerChar(text[i + j]) = LowerChar(token[j])

MatchedWeights == {i \in 1..Len(hints.l) : Occurs(hints.l[i].token, cls.text)}

RECURSIVE WeightSum(_)
WeightSum(S) ==
    IF S = {} THEN 0
    ELSE LET i == CHOOSE x \in S : TRUE
         IN  hints.l[i].weight + WeightSum(S \ {i})

\* C9: map_l_tokens returns the sum of the weights of exactly the configured
\* tokens that occur in the text as a case-insensitive substring, each once,
\* and exactly those tokens; the sleep-quality example scores 4 and resolves
\* to l_hard.
C9_LScoreIsSumOfMatchedWeights ==
    cls.done =>
        /\ cls.l_score = WeightSum(MatchedWeights)
        /\ Len(cls.l_tokens) = Cardinality(MatchedWeights)
        /\ {cls.l_tokens[i] : i \in 1..Len(cls.l_tokens)} =
                {hints.l[i].token : i \in MatchedWeights}
        /\ (cls.text = TxtSleep /\ hints = LOnly(SleepWeights)) =>
                (cls.l_score = 4 /\ cls.gate_hint = "l_hard")

\* the sleep-quality example has been classified
C9_Witness ==
    /\ cls.done
    /\ cls.text = TxtSleep
    /\ hints = LOnly(SleepWeights)
    /\ cls.phi_ids = <<>>
    /\ cls.k_ids = <<>>
    /\ cls.l_score = 4
    /\ cls.gate_hint = "l_hard"

\* the cell is a decimal numeral whose digits are all zero
IsZeroNumeral(cell) ==
    LET body == IF cell # <<>> /\ cell[1] \in {"-", "+"} THEN Tail(cell)
                ELSE cell
    IN  /\ \E i \in 1..Len(body) : body[i] = "0"
        /\ \A i \in 1..Len(body) : body[i] \in {"0", "."}
        /\ Cardinality({i \in 1..Len(body) : body[i] = "."}) <= 1

\* rows whose temperature is not 0 (a table without the column has none)
NonZeroRows ==
    {i \in 1..Len(v_claims) :
        /\ "extraction_temperature" \in DOMAIN v_claims[i]
        /\ ~IsZeroNumeral(v_claims[i]["extraction_temperature"])}

\* C10: for every claims table the temperature check ends with a result;
\* it reports row i exactly when row i's temperature is not 0, once, and
\* passes exactly when no row is reported.
C10_TemperatureCheckExact ==
    v_pc \in {"temperature_done", "raised"} =>
        /\ v_pc = "temperature_done"
        /\ {v_errors[k].row : k \in 1..Len(v_errors)} = NonZeroRows
        /\ Len(v_errors) = Cardinality(NonZeroRows)
        /\ v_passed = (NonZeroRows = {})

IsIntNumeral(c) == PyInt(c).ok

IsDecimalNumeral(c) == PyFloat(c).ok

ChecksRun == {vm.results[k].check : k \in 1..Len(vm.results)}

\* C11: every run of the validator runs all four checks, whatever the
\* earlier ones found, and exits with 0 exactly when every check recorded
\* zero violations.
C11_AllChecksRunExitCode ==
    (vm.active /\ v_pc = "exited") =>
        /\ ChecksRun =
            {"product_schema", "claims_schema", "temperature", "required"}
        /\ (vm.exit = 0) <=>
            (\A k \in 1..Len(vm.results) : vm.results[k].violations = 0)

\* C12: for every table content the validator finishes with a pass/fail
\* result and a violation list; no check raises an exception on a bad row.
C12_NoCheckRaises == vm.active => (v_pc # "raised" /\ ~vm.raised)

MissingPairs ==
    {p \in (1..Len(v_claims)) \X {"page_sha256", "claim_sha256"} :
        \/ p[2] \notin DOMAIN v_claims[p[1]]
        \/ v_claims[p[1]][p[2]] = <<>>}

\* C13: the required-field check reports (row i, field f) exactly when f is
\* page_sha256 or claim_sha256 and row i's value for f is empty or absent,
\* each such pair once, and passes exactly when there is none.
C13_RequiredFieldsExact ==
    (vm.active /\ v_pc = "required_done") =>
        /\ {<<v_errors[k].row, v_errors[k].field>> : k \in 1..Len(v_errors)}
            = MissingPairs
        /\ Len(v_errors) = Cardinality(MissingPairs)
        /\ v_passed = (MissingPairs = {})

\* the check returned on a table with a row missing both fields, one of
\* them because the row has no such column or an empty cell
C13_Witness ==
    /\ vm.active
    /\ v_pc = "required_done"
    /\ \E i \in 1..Len(v_claims) :
        {<<i, "page_sha256">>, <<i, "claim_sha256">>} \subseteq MissingPairs
    /\ Len(v_errors) >= 2

WeightsComputed == we.pc \in {"computed", "updated", "done"}

\* the stratum label of a product row: the value of its label column
LabelOf(p) == p[CHOOSE c \in LabelColumns : c \in DOMAIN p]

LabelCount(rows, s) ==
    Cardinality({i \in RIndexes(rows) : LabelOf(rows[i]) = s})

\* C15: on the normaliser's product table, each R product in stratum s
\* gets weight allocation(s) / (R products in s / all R products), rounded
\* to four decimals, the stratum of a product being its stratum label.
C15_WeightIsAllocationOverProportion ==
    (WeightsComputed /\ we.before.header = TableHeader("category_path")) =>
        \A i \in RIndexes(we.before.rows) :
            LET p == we.before.rows[i]
                s == LabelOf(p)
            IN  AllocationHas(we.plan, s) =>
                    we.weights[p.asin] =
                        RoundHalfEven(
                            AllocationOf(we.plan, s)
                                * Cardinality(RIndexes(we.before.rows))
                                * WeightUnit,
                            AllocationUnit * LabelCount(we.before.rows, s))

\* C16: for every product table and plan compute_weights completes without
\* a division fault, and a stratum whose observed proportion is zero gets
\* weight 1.0.
C16_NoDivisionFault ==
    /\ we.pc # "idle" => we.error # "ZeroDivisionError"
    /\ WeightsComputed =>
        \A i \in RIndexes(we.before.rows) :
            StratumCount(we.before.rows, StratumOf(we.before.rows[i])) = 0
                => we.weights[we.before.rows[i].asin] = WeightUnit

\* C17: the estimator changes no cell other than sampling_weight of R
\* rows; the rows and columns stay the same in set, order and count.
C17_OnlyRWeightsChange ==
    we.pc \in {"done", "raised"} =>
        /\ we.file.header = we.before.header
        /\ Len(we.file.rows) = Len(we.before.rows)
        /\ \A i \in 1..Len(we.file.rows) :
            /\ DOMAIN we.file.rows[i] = DOMAIN we.before.rows[i]
            /\ \A c \in DOMAIN we.before.rows[i] :
                (c # "sampling_weight" \/ ~IsR(we.before.rows[i]))
                    => we.file.rows[i][c] = we.before.rows[i][c]

NotSpace(c) == c # " "

\* a text with its case folded and its whitespace taken out
Normalised(s) == LowerStr(SelectSeq(s, NotSpace))

\* C18: every claim text the engine returns is, modulo whitespace and
\* case, a substring of the text of one of the page's zones.
C18_ClaimsOccurInSource ==
    ex.pc = "done" =>
        \A k \in 1..Len(ex.result) :
            \E z \in 1..Len(ex.sections) :
                Contains(Normalised(ex.sections[z].text),
                         Normalised(ex.result[k].text))

LlmFailed ==
    \/ ~ex.api_key
    \/ ex.response.kind = "raise"
    \/ ex.response.j # "list"
    \/ \E k \in 1..Len(ex.response.items) : ~ex.response.items[k].obj

\* C19: when the LLM backend is enabled and fails (no API key, an exception
\* in the call, a response that is not a list of claim objects),
\* extract_from_html returns exactly the rule-based result on the same zones.
C19_FailureFallsBackToRules ==
    (ex.pc = "done" /\ ex.path = "html" /\ ex.sections # <<>> /\ UseLlm(ex.policy) /\ LlmFailed)
        => ex.result = extract_rules_based(ex.sections, ex.policy)

RECURSIVE ExpectedOfPattern(_)
ExpectedOfPattern(ids) ==
    IF ids = <<>> THEN <<>>
    ELSE (IF Sentence[Head(ids)].qualifies
          THEN <<Sentence[Head(ids)].text>> ELSE <<>>)
         \o ExpectedOfPattern(Tail(ids))

RECURSIVE ExpectedOfZones(_)
ExpectedOfZones(zones) ==
    IF zones = <<>> THEN <<>>
    ELSE Repeat(ExpectedOfPattern(Head(zones).pattern), Head(zones).reps)
         \o ExpectedOfZones(Tail(zones))

\* C20: rule-based extraction returns at most 20 claims, and they are the
\* first min(20, n) of the n qualifying sentences in document order.
C20_FirstTwentyInOrder ==
    (ex.pc = "done" /\ ex.used = "rules") =>
        LET all == ExpectedOfZones(ex.zones)
            n == IF Len(all) < MaxRuleClaims THEN Len(all) ELSE MaxRuleClaims
        IN  /\ Len(ex.result) = n
            /\ \A k \in 1..n : ex.result[k].text = all[k]

\* the rules ran on a page with more than 20 qualifying sentences spread
\* over two zones, and on a page with fewer
C20_Witness ==
    /\ ex.pc = "done"
    /\ ex.used = "rules"
    /\ Len(ExpectedOfZones(ex.zones)) > MaxRuleClaims
    /\ Len(ex.zones) >= 2
    /\ Len(ex.result) = MaxRuleClaims
    /\ ex.result[1].text # ex.result[MaxRuleClaims].text

\* C29: in every product row the Normalizer writes, sampling_weight is "1.0"
\* exactly when sampling_cohort is R and empty exactly when it is not, also
\* for an asin without a metadata row or without a cohort field.
C29_SamplingFieldsConsistent ==
    product_out.exists =>
        \A i \in 1..Len(product_out.rows) :
            LET p == product_out.rows[i]
            IN  /\ (p.sampling_weight = "1.0") <=> (p.sampling_cohort = "R")
                /\ (p.sampling_weight = "") <=> (p.sampling_cohort # "R")

\* C30: the Normalizer's pass ends with both tables written under their
\* fixed headers, for every stream, also one without records or without
\* claims; it never fails after opening a table.
C30_BothTablesAlwaysWritten ==
    /\ pc # "crashed"
    /\ pc = "done" =>
        /\ product_out.exists /\ product_out.header = ProductColumns
        /\ claims_out.exists /\ claims_out.header = ClaimColumns

AggregateColumns ==
    {"phi_any_candidate", "k_any_candidate", "l_max_token_score"}

FirstValueColumns ==
    {ProductColumns[i] : i \in 1..Len(ProductColumns)} \ AggregateColumns

KeepsRecord(p, q) ==
    /\ \A c \in FirstValueColumns : q[c] = p[c]
    /\ p.phi_any_candidate = "true" => q.phi_any_candidate = "true"
    /\ p.k_any_candidate = "true" => q.k_any_candidate = "true"
    /\ PyInt(q.l_max_token_score).v >= PyInt(p.l_max_token_score).v

\* C23: in one pass, a step of the Normalizer keeps every product record
\* that exists: its asin and its first-value columns are unchanged,
\* a flag that is true stays true, l_max_token_score does not decrease.
C23_OnlyAggregatesChangeMonotone ==
    [][/\ Len(products') >= Len(products)
       /\ \A i \in 1..Len(products) :
            /\ products'[i].key = products[i].key
            /\ KeepsRecord(products[i].val, products'[i].val)]_vars

\* a product holds the score of an earlier claim of its asin after a later
\* claim of that asin scored lower; its other columns are the first ones
C23_Witness ==
    \E j, k \in 1..Len(claims) :
        /\ j < k
        /\ claims[j].asin = claims[k].asin
        /\ ScoreOf(claims[j]) > ScoreOf(claims[k])
        /\ claims[k].phi_hint_ids # EmptyJsonList
        /\ LET p == DictGet(products, claims[j].asin)
           IN  /\ PyInt(p.l_max_token_score).v = ScoreOf(claims[j])
               /\ p.phi_any_candidate = "true"
               /\ p.product_sha256 = PageShaOf(p.asin)

HasBadPattern(confs) ==
    \E i \in 1..Len(confs) :
        \E j \in 1..Len(confs[i].patterns) : confs[i].patterns[j].kind = "bad"

\* C22: with a hint file that holds an uncompilable pattern, at any position
\* of the Phi or K map, the Normalizer stops before it processes a record or
\* a claim, and never completes and writes its tables.
C22_BadPatternRejectedAtLoad ==
    (HasBadPattern(hints.phi) \/ HasBadPattern(hints.k)) =>
        /\ line = 0
        /\ products = <<>>
        /\ claims = <<>>
        /\ pc # "done"
        /\ ~product_out.exists
        /\ ~claims_out.exists

\* what the classifier gives a claim row, with the claim it is given for
ClassOf(c) ==
    <<c.asin, c.claim_text_verbatim, c.gate_hint, c.phi_hint_ids,
      c.k_hint_ids, c.l_token_score>>

TimesIn(rows, x) == Cardinality({j \in 1..Len(rows) : ClassOf(rows[j]) = x})

AggregatesOf(p) ==
    <<p.asin, p.phi_any_candidate, p.k_any_candidate, p.l_max_token_score>>

AggregateSet(rows) == {AggregatesOf(rows[i]) : i \in 1..Len(rows)}

TextOrder(rows) == [j \in 1..Len(rows) |-> rows[j].claim_text_verbatim]

C27_SecondRunChangesNothing ==
    (we.pc \in {"done", "raised"} /\ we.run = 2) => we.file = we.before

\* the second run is over, on a table in which the first run had replaced
\* the neutral weight of an R row and left a row of another cohort alone
C27_Witness ==
    /\ we.pc = "done"
    /\ we.run = 2
    /\ \E i, j \in 1..Len(we.file.rows) :
        /\ IsR(we.file.rows[i])
        /\ we.file.rows[i].sampling_weight # NormalizerWeight("R")
        /\ ~IsR(we.file.rows[j])
        /\ we.file.rows[j].sampling_weight = NormalizerWeight("T")

\* the lines of the written stream that belong to an asin, in order
LinesOf(asin) ==
    LET OfAsin(r) == r.asin = asin
    IN  SelectSeq(SubSeq(ex.extractions, 1, ex.flushed), OfAsin)

\* C21: the extraction run does not abort on a product whose cached HTML is
\* missing; the written stream holds no record of such a product, and the
\* records of every other product, those after a missing one included.
C21_MissingHtmlIsSkipped ==
    /\ ex.pc = "raised" => ~ex.temperature_zero
    /\ ex.pc = "written" =>
        \A k \in 1..Len(ex.pages) :
            LinesOf(ex.pages[k].asin) =
                IF ex.pages[k].html THEN PageRecords(ex.pages[k]) ELSE <<>>

\* the stream is written; a product without cached HTML, which has assets
\* with claims, is followed by a product whose records are in the stream
C21_Witness ==
    /\ ex.pc = "written"
    /\ Len(ex.pages) = 2
    /\ ~ex.pages[1].html
    /\ PageRecords(ex.pages[1]) # <<>>
    /\ ex.pages[2].html
    /\ LinesOf(ex.pages[2].asin) # <<>>
    /\ LinesOf(ex.pages[1].asin) = <<>>

\* C26: the Normalizer consumes the extraction stream only when the
\* extraction run has completed it: what it reads is the whole stream of a
\* finished run.
C26_NoPartialStreamConsumed ==
    (ex.pc # "idle" /\ ex.consumed.done) =>
        /\ ex.consumed.complete
        /\ ex.consumed.lines = ex.extractions

FetchSafe ==
    /\ sc.requests <= sc.policy.max_retries + 1
    /\ (sc.pc = "attempt" /\ sc.attempt > 0) =>
        /\ sc.slept = Pow(sc.policy.backoff_factor, sc.attempt - 1)
        /\ sc.waited = sc.slept
        /\ sc.requests = sc.attempt
    /\ sc.pc = "returned" =>
        /\ sc.waited = 0
        /\ sc.result.status_code # HttpOk =>
            /\ ~sc.result.html
            /\ sc.requests = sc.policy.max_retries + 1

RunSafe ==
    /\ Len(sc.outcomes) = sc.i
    /\ \A k \in 1..Len(sc.outcomes) :
        sc.outcomes[k] = "saved" <=> \E j \in 1..Len(sc.pages) : sc.pages[j] = k
    /\ sc.pc = "done" => sc.i = sc.n

\* C24: fetch_page sends at most max_retries + 1 requests for a URL, sleeps
\* backoff_factor^attempt after failed attempt number attempt before the
\* next, returns on the first 200 without waiting, and returns an empty
\* page after the last failed attempt; the run skips that row, goes on with
\* the next and comes to its end.
C24_FetchTerminates ==
    /\ [](sc.pc # "idle" => FetchSafe /\ RunSafe)
    /\ <>(sc.pc = "done")

\* the run is over: the first URL used up all its attempts, of which there
\* were more than one, and was skipped; the second was fetched and saved
C24_Witness ==
    /\ sc.pc = "done"
    /\ sc.policy.max_retries >= 1
    /\ sc.outcomes = <<"failed", "saved">>
    /\ sc.pages = <<2>>

\* C25: every page request is dispatched after a wait of at least
\* throttle_seconds since the previous dispatch (or the start), the first
\* attempt and every retry alike.
C25_ThrottleBeforeEveryDispatch ==
    (sc.pc # "idle" /\ sc.sent) => sc.last_gap >= sc.policy.throttle_seconds

====
